---- MODULE Spec2Model ----
(***************************************************************************)
(* Model of the video path of chroma-detect: VideoProcessor                *)
(* (js/src/video-processor.ts).  One VideoProcessor, its init() calls, its *)
(* detectFromVideo() calls, the media handle each call works on, the timers *)
(* the call arms and the WASM engine instances the processor constructs.   *)
(*                                                                         *)
(* JavaScript runs to completion: the code between two awaits is one       *)
(* action.  A handler that settles the awaited promise sets wait to "ok"   *)
(* or "err"; the continuation of the async function is the next action of  *)
(* that call and runs before any further host event or timer               *)
(* (MicrotasksEmpty).  Timestamps are exact rationals <<num, den>>.        *)
(***************************************************************************)
EXTENDS Integers, Sequences, FiniteSets, TLC

\* ------------------------------------------------------------------ bounds
MaxCount == 3            \* largest frameSampleCount a call is given

MaxSetConfig == 2        \* setConfig calls made on a ChromaDetect wrapper
PlanMaxCount == 10       \* largest count calculateFrameTimestamps is called with

Calls == {1, 2}          \* detectFromVideo calls (Spec makes the first only)
Inits == {1, 2}          \* init() calls (Spec makes the first only)
Engines == {1, 2}        \* ChromaDetect instances the init() calls can construct
Durations == {4, 10}     \* video.duration of the handles, seconds
MaxDurations == {5}      \* maxDuration values passed by the caller
Strategies == {"uniform", "keyframes"}
Results == {"null", "result"}   \* what get_video_consensus returns

HAVE_ENOUGH_DATA == 4
ReadyStates == {2, 4}    \* readyState read by ensureVideoReady

VARIABLES
    detector,     \* VideoProcessor.detector: 0 is null, else the engine instance
    initialized,  \* VideoProcessor.initialized
    engines,      \* number of ChromaDetect instances constructed so far
    initPc,       \* position of each init() call
    session,      \* per engine instance: the call whose session is open, or 0
    call,         \* per detectFromVideo call: its record (see IdleCall)
    imgDetector,     \* ImageProcessor.detector: 0 is null, else the instance
    imgInitialized,  \* ImageProcessor.initialized
    imgEngines,      \* ChromaDetect instances the ImageProcessor constructed
    imgInitPc,       \* position of each ImageProcessor.init() call
    imgCall,         \* the detectFromImage call: its position and its log
    config,          \* ChromaDetect.config of the wrapper (index.ts)
    configCalls,     \* the arguments of the setConfig calls made so far
    engineConfig,    \* per engine of the VideoProcessor: its thresholds
    imgEngineConfig  \* per engine of the ImageProcessor: its thresholds

imgVars == <<imgDetector, imgInitialized, imgEngines, imgInitPc, imgCall>>

cfgVars == <<config, configCalls, engineConfig, imgEngineConfig>>

vars == <<detector, initialized, engines, initPc, session, call, imgVars,
          cfgVars>>

\* ------------------------------------------------------------------ helpers
\* Math.min as it would be were the cap not applied: the duration is returned
Min_noCap(a, b) == a

\* Math.min as it would be were maxDuration taken whatever the duration
Min_noDuration(a, b) == b

\* Math.min(duration, maxDuration)
Min(a, b) == IF a <= b THEN a ELSE b

\* rationals as <<numerator, denominator>>, denominator > 0
Less(a, b) == a[1] * b[2] < b[1] * a[2]
Leq(a, b) == a[1] * b[2] <= b[1] * a[2]
Add(a, b) == <<a[1] * b[2] + b[1] * a[2], a[2] * b[2]>>
Eq(a, b) == a[1] * b[2] = b[1] * a[2]
Sub(a, b) == <<a[1] * b[2] - b[1] * a[2], a[2] * b[2]>>

\* a listener registered on the handle: event type, the wait that registered
\* it ("load", "ready" or "frame") and for a frame the index in the plan
L(ev, w, i) == [ev |-> ev, w |-> w, i |-> i]
\* a timer armed by setTimeout
T(w, i) == [w |-> w, i |-> i]

\* one entry of a call's log of observable effects: the operation, the index
\* in the plan it is about, a count (for a seek the seeks still pending, for an
\* engine call the call whose session the engine holds), the engine instance
\* and the value returned or the reason
Ev(op, i, j, e, v) == [op |-> op, i |-> i, j |-> j, e |-> e, v |-> v]

RECURSIVE CountOp(_, _)
CountOp(log, op) ==
    IF log = <<>> THEN 0
    ELSE (IF Head(log).op = op THEN 1 ELSE 0) + CountOp(Tail(log), op)

\* positions in the log of the entries with this op
Pos(log, op) == {k \in 1..Len(log) : log[k].op = op}

\* Array.prototype.sort((a, b) => a - b): stable insertion into sorted order
RECURSIVE Insert(_, _)
Insert(x, s) ==
    IF s = <<>> THEN <<x>>
    ELSE IF Less(x, Head(s)) THEN <<x>> \o s
    ELSE <<Head(s)>> \o Insert(x, Tail(s))

RECURSIVE SortAsc(_)
SortAsc(s) ==
    IF s = <<>> THEN <<>>
    ELSE Insert(s[Len(s)], SortAsc(SubSeq(s, 1, Len(s) - 1)))

\* sort as it would be were the comparator call left out of the return
sort_missing(s) == s

\* the keyframes branch finishes with timestamps.sort((a, b) => a - b)
sort(s) == SortAsc(s)

\* earlyCount as it would be with Math.ceil in place of Math.floor
earlyCountOf_ceil(count) == (4 * count + 9) \div 10

\* earlyCount as it would be with Math.round in place of Math.floor
earlyCountOf_round(count) == (4 * count + 5) \div 10

\* Math.floor(count * 0.4)
earlyCountOf(count) == (4 * count) \div 10

\* calculateFrameTimestamps as it would be were the uniform samples
\* i * interval in place of (i + 1) * interval
calculateFrameTimestamps_fromZero(duration, count, strategy, maxDuration) ==
    LET effectiveDuration == Min(duration, maxDuration)
        earlyCount == earlyCountOf(count)
        middleCount == count - earlyCount * 2
        early == [i \in 1..earlyCount |->
                    <<effectiveDuration * (i - 1), 10 * earlyCount>>]
        late == [i \in 1..earlyCount |->
                    Add(<<effectiveDuration * 9, 10>>,
                        <<effectiveDuration * (i - 1), 10 * earlyCount>>)]
        middle == [i \in 1..middleCount |->
                    Add(<<effectiveDuration * 3, 10>>,
                        <<effectiveDuration * 4 * (i - 1), 10 * middleCount>>)]
    IN  IF strategy = "uniform"
        THEN [i \in 1..count |-> <<(i - 1) * effectiveDuration, count + 1>>]
        ELSE sort(early \o late \o middle)

\* calculateFrameTimestamps as it would be were lateStart
\* effectiveDuration * 0.8
calculateFrameTimestamps_lateStart(duration, count, strategy, maxDuration) ==
    LET effectiveDuration == Min(duration, maxDuration)
        earlyCount == earlyCountOf(count)
        middleCount == count - earlyCount * 2
        early == [i \in 1..earlyCount |->
                    <<effectiveDuration * (i - 1), 10 * earlyCount>>]
        late == [i \in 1..earlyCount |->
                    Add(<<effectiveDuration * 8, 10>>,
                        <<effectiveDuration * (i - 1), 10 * earlyCount>>)]
        middle == [i \in 1..middleCount |->
                    Add(<<effectiveDuration * 3, 10>>,
                        <<effectiveDuration * 4 * (i - 1), 10 * middleCount>>)]
    IN  IF strategy = "uniform"
        THEN [i \in 1..count |-> <<i * effectiveDuration, count + 1>>]
        ELSE sort(early \o late \o middle)

\* calculateFrameTimestamps as it would be were middleStart 0
calculateFrameTimestamps_middleFromZero(duration, count, strategy, maxDuration) ==
    LET effectiveDuration == Min(duration, maxDuration)
        earlyCount == earlyCountOf(count)
        middleCount == count - earlyCount * 2
        early == [i \in 1..earlyCount |->
                    <<effectiveDuration * (i - 1), 10 * earlyCount>>]
        late == [i \in 1..earlyCount |->
                    Add(<<effectiveDuration * 9, 10>>,
                        <<effectiveDuration * (i - 1), 10 * earlyCount>>)]
        middle == [i \in 1..middleCount |->
                    <<effectiveDuration * 7 * (i - 1), 10 * middleCount>>]
    IN  IF strategy = "uniform"
        THEN [i \in 1..count |-> <<i * effectiveDuration, count + 1>>]
        ELSE sort(early \o late \o middle)

\* calculateFrameTimestamps as it would be were the cap applied only once
\* the processor is initialised
calculateFrameTimestamps_readsProcessor(duration, count, strategy, maxDuration) ==
    LET effectiveDuration == IF initialized THEN Min(duration, maxDuration)
                             ELSE duration
        earlyCount == earlyCountOf(count)
        middleCount == count - earlyCount * 2
        early == [i \in 1..earlyCount |->
                    <<effectiveDuration * (i - 1), 10 * earlyCount>>]
        late == [i \in 1..earlyCount |->
                    Add(<<effectiveDuration * 9, 10>>,
                        <<effectiveDuration * (i - 1), 10 * earlyCount>>)]
        middle == [i \in 1..middleCount |->
                    Add(<<effectiveDuration * 3, 10>>,
                        <<effectiveDuration * 4 * (i - 1), 10 * middleCount>>)]
    IN  IF strategy = "uniform"
        THEN [i \in 1..count |-> <<i * effectiveDuration, count + 1>>]
        ELSE sort(early \o late \o middle)

\* calculateFrameTimestamps(duration, count, strategy, maxDuration): a
\* timestamp is the exact value of the expression the code evaluates
calculateFrameTimestamps(duration, count, strategy, maxDuration) ==
    LET effectiveDuration == Min(duration, maxDuration)
        earlyCount == earlyCountOf(count)
        middleCount == count - earlyCount * 2
        early == [i \in 1..earlyCount |->
                    <<effectiveDuration * (i - 1), 10 * earlyCount>>]
        late == [i \in 1..earlyCount |->
                    Add(<<effectiveDuration * 9, 10>>,
                        <<effectiveDuration * (i - 1), 10 * earlyCount>>)]
        middle == [i \in 1..middleCount |->
                    Add(<<effectiveDuration * 3, 10>>,
                        <<effectiveDuration * 4 * (i - 1), 10 * middleCount>>)]
    IN  IF strategy = "uniform"
        THEN [i \in 1..count |-> <<i * effectiveDuration, count + 1>>]
        ELSE sort(early \o late \o middle)

\* ------------------------------------------------------------------ state
IdleCall ==
    [pc |-> "idle",        \* idle, load, ready, frame, resolved, rejected
     wait |-> "none",      \* the awaited promise: none, pending, ok, err
     err |-> "",           \* reason the awaited promise was rejected with
     isFile |-> FALSE,     \* source instanceof File
     srcBlob |-> FALSE,    \* video.src.startsWith('blob:')
     given |-> {},         \* the keys the config argument has
     config |-> [frameSampleCount |-> 0, sampleStrategy |-> "",
                 maxDuration |-> 0],                    \* and their values
     count |-> 0, strategy |-> "", maxDuration |-> 0,   \* the VideoConfig
     duration |-> 0,       \* video.duration
     readyState |-> 0,     \* video.readyState as ensureVideoReady read it
     listeners |-> {},     \* listeners registered on the handle
     timers |-> {},        \* armed timers
     pending |-> {},       \* seeks requested and not yet answered by the host
     plan |-> <<>>,        \* timestamps
     idx |-> 0,            \* position of the for loop in the plan
     frameOk |-> FALSE,    \* the awaited extractFrame resolved with a frame
     after |-> {},         \* the calls that had settled when this one was made
     found |-> {},         \* the calls whose session was open on the engine
                           \* when this one called start_video_analysis
     lateSignals |-> {},   \* the signals the host delivered after the call settled
     log |-> <<>>]

\* the keys of a DetectionConfig the model follows, and the values given
Keys == {"minSaturation", "confidenceThreshold"}
Unset == 0
ConfigValues == {1, 2}

\* private config: DetectionConfig = {}; an engine that was constructed and
\* never configured has its own default for every key
InitConfig ==
    /\ config = [k \in Keys |-> Unset]
    /\ configCalls = <<>>
    /\ engineConfig = [e \in Engines |-> [k \in Keys |-> Unset]]
    /\ imgEngineConfig = [e \in Engines |-> [k \in Keys |-> Unset]]

Init ==
    /\ detector = 0
    /\ initialized = FALSE
    /\ engines = 0
    /\ initPc = [i \in Inits |-> "idle"]
    /\ session = [e \in Engines |-> 0]
    /\ call = [c \in Calls |-> IdleCall]
    /\ imgDetector = 0
    /\ imgInitialized = FALSE
    /\ imgEngines = 0
    /\ imgInitPc = [i \in Inits |-> "idle"]
    /\ imgCall = [pc |-> "idle", log |-> <<>>]
    /\ InitConfig

\* no continuation of an async function is queued: host events and timers are
\* tasks, and a task runs only when the microtask queue is empty
MicrotasksEmpty ==
    \A c \in Calls : call[c].wait \in {"none", "pending"}

Settled(c) == call[c].pc \in {"resolved", "rejected"}

\* ------------------------------------------------------------------ init()
\* InitCall as it would be without the check of this.initialized
InitCall_noCheck(i) ==
    /\ initPc[i] = "idle"
    /\ initPc' = [initPc EXCEPT ![i] = "awaitWasm"]
    /\ UNCHANGED <<cfgVars, imgVars, detector, initialized, engines, session, call>>

\* init(): if (this.initialized) return; else await init()
InitCall(i) ==
    /\ initPc[i] = "idle"
    /\ initPc' = [initPc EXCEPT ![i] = IF initialized THEN "done" ELSE "awaitWasm"]
    /\ UNCHANGED <<cfgVars, imgVars, detector, initialized, engines, session, call>>

\* the WASM initialisation resolved: this.detector = new ChromaDetect();
\* this.initialized = true
InitWasmResolved(i) ==
    /\ initPc[i] = "awaitWasm"
    /\ MicrotasksEmpty
    /\ engines' = engines + 1
    /\ detector' = engines + 1
    /\ initialized' = TRUE
    /\ initPc' = [initPc EXCEPT ![i] = "done"]
    /\ UNCHANGED <<cfgVars, imgVars, session, call>>

\* InitWasmRejected as it would be were this.initialized set before the
\* await
InitWasmRejected_flagSet(i) ==
    /\ initPc[i] = "awaitWasm"
    /\ MicrotasksEmpty
    /\ initPc' = [initPc EXCEPT ![i] = "failed"]
    /\ initialized' = TRUE
    /\ UNCHANGED <<cfgVars, imgVars, detector, engines, session, call>>

\* the WASM initialisation rejected: init() rejects, nothing is assigned
InitWasmRejected(i) ==
    /\ initPc[i] = "awaitWasm"
    /\ MicrotasksEmpty
    /\ initPc' = [initPc EXCEPT ![i] = "failed"]
    /\ UNCHANGED <<cfgVars, imgVars, detector, initialized, engines, session, call>>

\* ------------------------------------------------------------------ promises
\* resolve()/reject() of the promise the call awaits; a settled promise
\* ignores every further resolve and reject
Settle(r, outcome, reason) ==
    IF r.wait = "pending"
    THEN [r EXCEPT !.wait = outcome, !.err = reason]
    ELSE r

Log(r, e) == [r EXCEPT !.log = Append(@, e)]

\* ------------------------------------------------------------------ loadVideoFile
LoadListeners == {L("canplaythrough", "load", 0), L("error", "load", 0)}

\* document.createElement('video'); URL.createObjectURL(file); video.src = url;
\* both listeners registered; the 30 s timer armed
loadVideoFile(r) ==
    [Log(r, Ev("createObjectURL", 0, 0, 0, "")) EXCEPT
        !.pc = "load", !.wait = "pending", !.srcBlob = TRUE,
        !.listeners = @ \cup LoadListeners,
        !.timers = @ \cup {T("load", 0)}]

\* loadVideoFile.onCanPlayThrough
LoadOnCanPlayThrough(c) ==
    /\ MicrotasksEmpty
    /\ L("canplaythrough", "load", 0) \in call[c].listeners
    /\ call' = [call EXCEPT ![c] =
          Settle([@ EXCEPT !.listeners = @ \ LoadListeners,
                           !.timers = @ \ {T("load", 0)}], "ok", "")]
    /\ UNCHANGED <<cfgVars, imgVars, detector, initialized, engines, initPc, session>>

\* loadVideoFile.onError
LoadOnError(c) ==
    /\ MicrotasksEmpty
    /\ L("error", "load", 0) \in call[c].listeners
    /\ call' = [call EXCEPT ![c] =
          Settle(Log([@ EXCEPT !.listeners = @ \ LoadListeners,
                               !.timers = @ \ {T("load", 0)}],
                     Ev("revokeObjectURL", 0, 0, 0, "")),
                 "err", "Failed to load video")]
    /\ UNCHANGED <<cfgVars, imgVars, detector, initialized, engines, initPc, session>>

\* the 30 s timer of loadVideoFile fires
LoadTimeout(c) ==
    /\ MicrotasksEmpty
    /\ T("load", 0) \in call[c].timers
    /\ call' = [call EXCEPT ![c] =
          Settle(Log([@ EXCEPT !.listeners = @ \ LoadListeners,
                               !.timers = @ \ {T("load", 0)}],
                     Ev("revokeObjectURL", 0, 0, 0, "")),
                 "err", "Video load timeout")]
    /\ UNCHANGED <<cfgVars, imgVars, detector, initialized, engines, initPc, session>>

\* ------------------------------------------------------------------ ensureVideoReady
ReadyListeners == {L("canplaythrough", "ready", 0), L("error", "ready", 0)}

\* ensureVideoReady as it would be without the check of readyState
ensureVideoReady_alwaysWait(r, rs) ==
    [Log(r, Ev("load()", 0, 0, 0, "")) EXCEPT
        !.pc = "ready", !.wait = "pending", !.readyState = rs,
        !.listeners = @ \cup {L("canplaythrough", "ready", 0),
                              L("error", "ready", 0)},
        !.timers = @ \cup {T("ready", 0)}]

\* the executor of ensureVideoReady, rs being video.readyState
ensureVideoReady(r, rs) ==
    IF rs >= HAVE_ENOUGH_DATA
    THEN [r EXCEPT !.pc = "ready", !.wait = "ok", !.readyState = rs]
    ELSE [Log(r, Ev("load()", 0, 0, 0, "")) EXCEPT
            !.pc = "ready", !.wait = "pending", !.readyState = rs,
            !.listeners = @ \cup ReadyListeners,
            !.timers = @ \cup {T("ready", 0)}]

\* ReadyOnCanPlayThrough as it would be without clearTimeout(timeoutId)
ReadyOnCanPlayThrough_keepsTimer(c) ==
    /\ MicrotasksEmpty
    /\ L("canplaythrough", "ready", 0) \in call[c].listeners
    /\ call' = [call EXCEPT ![c] =
          Settle([@ EXCEPT !.listeners = @ \ ReadyListeners], "ok", "")]
    /\ UNCHANGED <<cfgVars, imgVars, detector, initialized, engines, initPc, session>>

\* ensureVideoReady.onCanPlayThrough
ReadyOnCanPlayThrough(c) ==
    /\ MicrotasksEmpty
    /\ L("canplaythrough", "ready", 0) \in call[c].listeners
    /\ call' = [call EXCEPT ![c] =
          Settle([@ EXCEPT !.listeners = @ \ ReadyListeners,
                           !.timers = @ \ {T("ready", 0)}], "ok", "")]
    /\ UNCHANGED <<cfgVars, imgVars, detector, initialized, engines, initPc, session>>

\* ensureVideoReady.onError
ReadyOnError(c) ==
    /\ MicrotasksEmpty
    /\ L("error", "ready", 0) \in call[c].listeners
    /\ call' = [call EXCEPT ![c] =
          Settle([@ EXCEPT !.listeners = @ \ ReadyListeners,
                           !.timers = @ \ {T("ready", 0)}],
                 "err", "Video failed to load")]
    /\ UNCHANGED <<cfgVars, imgVars, detector, initialized, engines, initPc, session>>

\* ReadyTimeout as it would be were the reject call left out of the callback
ReadyTimeout_noReject(c) ==
    /\ MicrotasksEmpty
    /\ T("ready", 0) \in call[c].timers
    /\ call' = [call EXCEPT ![c] =
          [@ EXCEPT !.listeners = @ \ ReadyListeners,
                    !.timers = @ \ {T("ready", 0)}]]
    /\ UNCHANGED <<cfgVars, imgVars, detector, initialized, engines, initPc, session>>

\* the 30 s timer of ensureVideoReady fires
ReadyTimeout(c) ==
    /\ MicrotasksEmpty
    /\ T("ready", 0) \in call[c].timers
    /\ call' = [call EXCEPT ![c] =
          Settle([@ EXCEPT !.listeners = @ \ ReadyListeners,
                           !.timers = @ \ {T("ready", 0)}],
                 "err", "Video load timeout")]
    /\ UNCHANGED <<cfgVars, imgVars, detector, initialized, engines, initPc, session>>

\* ------------------------------------------------------------------ extractFrame
\* extractFrame as it would be were video.currentTime set before the
\* listeners are registered
extractFrame_seekFirst(r, i) ==
    [Log(Log(r, Ev("seek", i, Cardinality(r.pending), 0, "")),
         Ev("addEventListener", i, 0, 0, "seeked")) EXCEPT
        !.pc = "frame", !.wait = "pending", !.idx = i, !.frameOk = FALSE,
        !.listeners = @ \cup {L("seeked", "frame", i), L("error", "frame", i)},
        !.pending = @ \cup {i},
        !.timers = @ \cup {T("frame", i)}]

\* the executor of extractFrame for the i-th timestamp of the plan: both
\* listeners registered, video.currentTime = timestamp, the 5 s timer armed.
\* The seek entry records how many earlier seeks the host has not answered.
extractFrame(r, i) ==
    [Log(Log(r, Ev("addEventListener", i, 0, 0, "seeked")),
         Ev("seek", i, Cardinality(r.pending), 0, "")) EXCEPT
        !.pc = "frame", !.wait = "pending", !.idx = i, !.frameOk = FALSE,
        !.listeners = @ \cup {L("seeked", "frame", i), L("error", "frame", i)},
        !.pending = @ \cup {i},
        !.timers = @ \cup {T("frame", i)}]

\* extractFrame.onSeeked, run by the host's 'seeked' signal answering seek j.
\* drawImage/getImageData either give the frame or throw; a throw leaves the
\* handler before it removes the listener, clears the timer or resolves.
FrameOnSeeked(c) ==
    /\ MicrotasksEmpty
    /\ \E i \in 1..MaxCount, j \in call[c].pending, captured \in BOOLEAN :
        /\ L("seeked", "frame", i) \in call[c].listeners
        /\ call' = [call EXCEPT ![c] =
              IF captured
              THEN Settle([Log(@, Ev("capture", i, j, 0, "")) EXCEPT
                              !.pending = @ \ {j},
                              !.frameOk = TRUE,
                              !.listeners = @ \ {L("seeked", "frame", i)},
                              !.timers = @ \ {T("frame", i)}], "ok", "")
              ELSE [@ EXCEPT !.pending = @ \ {j}]]
    /\ UNCHANGED <<cfgVars, imgVars, detector, initialized, engines, initPc, session>>

\* extractFrame.onError of the extraction in progress, run by the host's
\* 'error' signal, which is the host's answer to every seek still pending.
\* The handler removes the 'seeked' listener only: its own stays registered.
FrameOnError(c) ==
    /\ MicrotasksEmpty
    /\ call[c].pc = "frame"
    /\ LET i == call[c].idx IN
        /\ L("error", "frame", i) \in call[c].listeners
        /\ call' = [call EXCEPT ![c] =
              Settle([@ EXCEPT !.pending = {},
                               !.listeners = @ \ {L("seeked", "frame", i)},
                               !.timers = @ \ {T("frame", i)}],
                     "err", "Seek failed")]
    /\ UNCHANGED <<cfgVars, imgVars, detector, initialized, engines, initPc, session>>

\* FrameTimeout as it would be were the reject call left out of the callback
FrameTimeout_noReject(c) ==
    /\ MicrotasksEmpty
    /\ \E i \in 1..MaxCount :
        /\ T("frame", i) \in call[c].timers
        /\ call' = [call EXCEPT ![c] =
              [@ EXCEPT !.timers = @ \ {T("frame", i)},
                        !.listeners = @ \ {L("seeked", "frame", i),
                                           L("error", "frame", i)}]]
    /\ UNCHANGED <<cfgVars, imgVars, detector, initialized, engines, initPc, session>>

\* FrameTimeout as it would be were the listeners left on the handle
FrameTimeout_keepsListeners(c) ==
    /\ MicrotasksEmpty
    /\ \E i \in 1..MaxCount :
        /\ T("frame", i) \in call[c].timers
        /\ call' = [call EXCEPT ![c] =
              Settle([@ EXCEPT !.timers = @ \ {T("frame", i)}],
                     "err", "Frame extraction timeout")]
    /\ UNCHANGED <<cfgVars, imgVars, detector, initialized, engines, initPc, session>>

\* the 5 s timer of extractFrame fires; the seek stays pending at the host
FrameTimeout(c) ==
    /\ MicrotasksEmpty
    /\ \E i \in 1..MaxCount :
        /\ T("frame", i) \in call[c].timers
        /\ call' = [call EXCEPT ![c] =
              Settle([@ EXCEPT !.timers = @ \ {T("frame", i)},
                               !.listeners = @ \ {L("seeked", "frame", i),
                                                  L("error", "frame", i)}],
                     "err", "Frame extraction timeout")]
    /\ UNCHANGED <<cfgVars, imgVars, detector, initialized, engines, initPc, session>>

\* ------------------------------------------------------------------ detectFromVideo
\* finally as it would be were isFile left out of its condition
finally_anyBlob(r) ==
    IF r.srcBlob
    THEN Log(r, Ev("revokeObjectURL", 0, 0, 0, ""))
    ELSE r

\* finally as it would be with the revokeObjectURL call left out
finally_noRevoke(r) == r

\* finally { if (isFile && video.src.startsWith('blob:')) URL.revokeObjectURL(video.src) }
finally(r) ==
    IF r.isFile /\ r.srcBlob
    THEN Log(r, Ev("revokeObjectURL", 0, 0, 0, ""))
    ELSE r

\* the promise detectFromVideo returned is settled
Resolve(r, v) ==
    [Log(r, Ev("resolve", 0, 0, 0, v)) EXCEPT !.pc = "resolved", !.wait = "none"]

Reject(r, reason) ==
    [Log(r, Ev("reject", 0, 0, 0, reason)) EXCEPT !.pc = "rejected", !.wait = "none"]

\* getConsensusAndReturn as it would be were a null consensus thrown as an error
getConsensusAndReturn_nullThrows(r, e, out) ==
    LET r1 == Log(r, Ev("get_video_consensus", 0, 0, e, out))
    IN  IF out \in {"throw", "null"}
        THEN Reject(finally(r1), "no consensus")
        ELSE Resolve(finally(r1), out)

\* getConsensusAndReturn as it would be were the URL released before the
\* consensus is asked for
getConsensusAndReturn_revokeFirst(r, e, out) ==
    LET r1 == Log(finally(r), Ev("get_video_consensus", 0, 0, e, out))
    IN  IF out = "throw"
        THEN Reject(r1, "get_video_consensus threw")
        ELSE Resolve(r1, out)

\* this.detector.get_video_consensus() on engine e, which returns out or
\* throws (out = "throw"); then the finally block; then the call settles
getConsensusAndReturn(r, e, out) ==
    LET r1 == Log(r, Ev("get_video_consensus", 0, 0, e, out))
    IN  IF out = "throw"
        THEN Reject(finally(r1), "get_video_consensus threw")
        ELSE Resolve(finally(r1), out)

\* loopAt as it would be were start_video_analysis called inside the loop
loopAt_startInLoop(r, i, e, out) ==
    IF i <= Len(r.plan)
    THEN extractFrame(Log(r, Ev("start_video_analysis", 0, 0, e, "ok")), i)
    ELSE getConsensusAndReturn(r, e, out)

\* loopAt as it would be were the consensus asked for only when a frame was
\* submitted
loopAt_noFramesNoConsensus(r, i, e, out) ==
    IF i <= Len(r.plan)
    THEN extractFrame(r, i)
    ELSE IF CountOp(r.log, "add_video_frame") = 0
    THEN Resolve(finally(r), "null")
    ELSE getConsensusAndReturn(r, e, out)

\* the for loop reaches index i of the plan: the next extraction, or past the
\* end of the plan the consensus
loopAt(r, i, e, out) ==
    IF i <= Len(r.plan)
    THEN extractFrame(r, i)
    ELSE getConsensusAndReturn(r, e, out)

\* the engine's session after the engine calls in entries, made by call c:
\* start_video_analysis opens c's session (dropping any other),
\* get_video_consensus closes whatever session is open
RECURSIVE engineAfter(_, _, _)
engineAfter(sess, entries, c) ==
    IF entries = <<>> THEN sess
    ELSE LET x == Head(entries)
             next == IF x.op = "start_video_analysis" /\ x.v = "ok"
                     THEN [sess EXCEPT ![x.e] = c]
                     ELSE IF x.op = "get_video_consensus"
                     THEN [sess EXCEPT ![x.e] = 0]
                     ELSE sess
         IN  engineAfter(next, Tail(entries), c)

\* the entries a step appended to the log
Appended(old, new) == SubSeq(new.log, Len(old.log) + 1, Len(new.log))

\* the keys of a VideoConfig and the defaults of the destructuring of
\* lines 28-32
VideoConfigKeys == {"frameSampleCount", "sampleStrategy", "maxDuration"}
DefaultFrameSampleCount == 8
DefaultSampleStrategy == "uniform"
DefaultMaxDuration == 30

\* withDefault as it would be were the default taken also for a key the
\* config has
withDefault_always(given, key, value, default) == default

\* const { key = default } = config
withDefault(given, key, value, default) ==
    IF key \in given THEN value ELSE default

\* what a detectFromVideo call is given: the source (a File, or a handle
\* with its src and readyState), the VideoConfig and the video's duration.
\* A File's URL is a blob: URL; the readyState of its handle is read when
\* loadVideoFile has resolved (AfterLoad), so rs is fixed here.
Inputs ==
    {x \in [isFile : BOOLEAN, srcBlob : BOOLEAN, count : 1..MaxCount,
            strategy : Strategies, maxDuration : MaxDurations,
            given : {VideoConfigKeys},
            duration : Durations, rs : ReadyStates] :
        x.isFile => (x.srcBlob /\ x.rs = HAVE_ENOUGH_DATA)}

\* the inputs of the specifications that put several calls side by side
SmallInputs ==
    {x \in Inputs : x.count <= 2 /\ x.strategy = "uniform" /\ x.duration = 10
                    /\ (x.isFile \/ ~x.srcBlob)}

\* detectFromVideo as it would be with the check of line 26 moved after the
\* loading of the source
detectFromVideo_lateCheck(c, inputs) ==
    /\ call[c].pc = "idle"
    /\ \E x \in inputs :
        LET r == [IdleCall EXCEPT
                    !.isFile = x.isFile,
                    !.given = x.given,
                    !.config = [frameSampleCount |-> x.count,
                                sampleStrategy |-> x.strategy,
                                maxDuration |-> x.maxDuration],
                    !.count = withDefault(x.given, "frameSampleCount",
                                          x.count, DefaultFrameSampleCount),
                    !.after = {d \in Calls : Settled(d)},
                    !.strategy = withDefault(x.given, "sampleStrategy",
                                             x.strategy, DefaultSampleStrategy),
                    !.maxDuration = withDefault(x.given, "maxDuration",
                                                x.maxDuration, DefaultMaxDuration),
                    !.duration = x.duration]
        IN  call' = [call EXCEPT ![c] =
                  IF x.isFile
                  THEN loadVideoFile(r)
                  ELSE IF detector = 0
                  THEN Reject(r, "Not initialized")
                  ELSE ensureVideoReady([r EXCEPT !.srcBlob = x.srcBlob], x.rs)]
    /\ UNCHANGED <<cfgVars, imgVars, detector, initialized, engines, initPc, session>>

\* detectFromVideo(source, config) up to its first await, the input drawn
\* from the set inputs
detectFromVideo(c, inputs) ==
    /\ call[c].pc = "idle"
    /\ \E x \in inputs :
        LET r == [IdleCall EXCEPT
                    !.isFile = x.isFile,
                    !.given = x.given,
                    !.config = [frameSampleCount |-> x.count,
                                sampleStrategy |-> x.strategy,
                                maxDuration |-> x.maxDuration],
                    !.count = withDefault(x.given, "frameSampleCount",
                                          x.count, DefaultFrameSampleCount),
                    !.after = {d \in Calls : Settled(d)},
                    !.strategy = withDefault(x.given, "sampleStrategy",
                                             x.strategy, DefaultSampleStrategy),
                    !.maxDuration = withDefault(x.given, "maxDuration",
                                                x.maxDuration, DefaultMaxDuration),
                    !.duration = x.duration]
        IN  call' = [call EXCEPT ![c] =
                  IF detector = 0
                  THEN Reject(r, "Not initialized")
                  ELSE IF x.isFile
                  THEN loadVideoFile(r)
                  ELSE ensureVideoReady([r EXCEPT !.srcBlob = x.srcBlob], x.rs)]
    /\ UNCHANGED <<cfgVars, imgVars, detector, initialized, engines, initPc, session>>

DetectFromVideo(c) == detectFromVideo(c, Inputs)

DetectFromVideoSmall(c) == detectFromVideo(c, SmallInputs)

\* two calls side by side are given handles that are ready; the first has a
\* plan of one or two timestamps, the second a plan of one
DetectFromVideoConc(c) ==
    detectFromVideo(c, {x \in SmallInputs : /\ ~x.isFile
                                            /\ x.rs = HAVE_ENOUGH_DATA
                                            /\ x.count <= 3 - c})

\* loadVideoFile resolved: the try block is entered and ensureVideoReady runs
AfterLoad(c) ==
    /\ call[c].pc = "load"
    /\ call[c].wait = "ok"
    /\ \E rs \in ReadyStates :
        call' = [call EXCEPT ![c] = ensureVideoReady(@, rs)]
    /\ UNCHANGED <<cfgVars, imgVars, detector, initialized, engines, initPc, session>>

\* loadVideoFile rejected: the await is outside the try block
AfterLoadFailed(c) ==
    /\ call[c].pc = "load"
    /\ call[c].wait = "err"
    /\ call' = [call EXCEPT ![c] = Reject(@, @.err)]
    /\ UNCHANGED <<cfgVars, imgVars, detector, initialized, engines, initPc, session>>

\* call d opened a session on engine e by start_video_analysis and has not
\* called get_video_consensus on e since
OpenSessionOn(d, e) ==
    \E k \in Pos(call[d].log, "start_video_analysis") :
        /\ call[d].log[k].e = e
        /\ call[d].log[k].v = "ok"
        /\ \A q \in Pos(call[d].log, "get_video_consensus") :
              q < k \/ call[d].log[q].e # e

\* ensureVideoReady resolved: the plan, start_video_analysis (which returns
\* or throws) and the first iteration of the loop
AfterReady(c) ==
    /\ call[c].pc = "ready"
    /\ call[c].wait = "ok"
    /\ \E started \in BOOLEAN, out \in Results \cup {"throw"},
          timestamps \in {calculateFrameTimestamps(call[c].duration,
                              call[c].count, call[c].strategy,
                              call[c].maxDuration)} :
        LET e == detector
            r0 == [call[c] EXCEPT
                      !.plan = timestamps,
                      !.found = {d \in Calls \ {c} : OpenSessionOn(d, e)}]
            r1 == Log(r0, Ev("start_video_analysis", 0, session[e], e,
                             IF started THEN "ok" ELSE "throw"))
            r2 == IF started
                  THEN loopAt(r1, 1, e, out)
                  ELSE Reject(finally(r1), "start_video_analysis threw")
        IN  /\ (~started \/ 1 <= Len(r1.plan)) => out = "throw"
            /\ call' = [call EXCEPT ![c] = r2]
            /\ session' = engineAfter(session, Appended(call[c], r2), c)
    /\ UNCHANGED <<cfgVars, imgVars, detector, initialized, engines, initPc>>

\* AfterReadyFailed as it would be were the URL released after the rejection
AfterReadyFailed_lateRevoke(c) ==
    /\ call[c].pc = "ready"
    /\ call[c].wait = "err"
    /\ call' = [call EXCEPT ![c] = finally(Reject(@, @.err))]
    /\ UNCHANGED <<cfgVars, imgVars, detector, initialized, engines, initPc, session>>

\* AfterReadyFailed as it would be were the failure caught and null returned
AfterReadyFailed_swallow(c) ==
    /\ call[c].pc = "ready"
    /\ call[c].wait = "err"
    /\ call' = [call EXCEPT ![c] = Resolve(finally(@), "null")]
    /\ UNCHANGED <<cfgVars, imgVars, detector, initialized, engines, initPc, session>>

\* ensureVideoReady rejected: the finally block, then the call rejects
AfterReadyFailed(c) ==
    /\ call[c].pc = "ready"
    /\ call[c].wait = "err"
    /\ call' = [call EXCEPT ![c] = Reject(finally(@), @.err)]
    /\ UNCHANGED <<cfgVars, imgVars, detector, initialized, engines, initPc, session>>

\* AfterFrame as it would be were the call to give up when the session open
\* on the engine is not the one it started
AfterFrame_ownSessionOnly(c) ==
    /\ call[c].pc = "frame"
    /\ call[c].wait = "ok"
    /\ \E added \in {"true", "false", "throw"}, out \in Results \cup {"throw"} :
        LET e == detector
            i == call[c].idx
            r0 == Log(call[c], Ev("add_video_frame", i, session[e], e, added))
            r1 == IF added = "throw"
                  THEN Log(r0, Ev("warn", i, 0, 0, "add_video_frame threw"))
                  ELSE r0
            r2 == IF session[e] = c
                  THEN loopAt(r1, i + 1, e, out)
                  ELSE Reject(finally(call[c]), "session lost")
        IN  /\ (i < Len(r1.plan) \/ session[e] # c) => (out = "throw")
            /\ call' = [call EXCEPT ![c] = r2]
            /\ session' = engineAfter(session, Appended(call[c], r2), c)
    /\ UNCHANGED <<cfgVars, imgVars, detector, initialized, engines, initPc>>

\* AfterFrame as it would be were the loop left when the engine does not
\* accept the frame
AfterFrame_stopsOnRejected(c) ==
    /\ call[c].pc = "frame"
    /\ call[c].wait = "ok"
    /\ \E added \in {"true", "false", "throw"}, out \in Results \cup {"throw"} :
        LET e == detector
            i == call[c].idx
            r0 == Log(call[c], Ev("add_video_frame", i, session[e], e, added))
            r1 == IF added = "throw"
                  THEN Log(r0, Ev("warn", i, 0, 0, "add_video_frame threw"))
                  ELSE r0
            next == IF added = "true" THEN i + 1 ELSE Len(r1.plan) + 1
        IN  /\ (next <= Len(r1.plan)) => (out = "throw")
            /\ call' = [call EXCEPT ![c] = loopAt(r1, next, e, out)]
            /\ session' = engineAfter(session,
                                      Appended(call[c], loopAt(r1, next, e, out)), c)
    /\ UNCHANGED <<cfgVars, imgVars, detector, initialized, engines, initPc>>

\* extractFrame resolved: add_video_frame (which returns true or false, or
\* throws into the catch), then the next iteration
AfterFrame(c) ==
    /\ call[c].pc = "frame"
    /\ call[c].wait = "ok"
    /\ \E added \in {"true", "false", "throw"}, out \in Results \cup {"throw"} :
        LET e == detector
            i == call[c].idx
            r0 == Log(call[c], Ev("add_video_frame", i, session[e], e, added))
            r1 == IF added = "throw"
                  THEN Log(r0, Ev("warn", i, 0, 0, "add_video_frame threw"))
                  ELSE r0
        IN  /\ (i < Len(r1.plan)) => (out = "throw")
            /\ call' = [call EXCEPT ![c] = loopAt(r1, i + 1, e, out)]
            /\ session' = engineAfter(session,
                                      Appended(call[c], loopAt(r1, i + 1, e, out)), c)
    /\ UNCHANGED <<cfgVars, imgVars, detector, initialized, engines, initPc>>

\* AfterFrameFailed as it would be were the catch to rethrow after the warning
AfterFrameFailed_rethrow(c) ==
    /\ call[c].pc = "frame"
    /\ call[c].wait = "err"
    /\ call' = [call EXCEPT ![c] =
          Reject(finally(Log(@, Ev("warn", @.idx, 0, 0, @.err))), @.err)]
    /\ UNCHANGED <<cfgVars, imgVars, detector, initialized, engines, initPc, session>>

\* AfterFrameFailed as it would be were a failed extraction tried again
AfterFrameFailed_retry(c) ==
    /\ call[c].pc = "frame"
    /\ call[c].wait = "err"
    /\ LET e == detector
           i == call[c].idx
           r1 == Log(call[c], Ev("warn", i, 0, 0, call[c].err))
       IN  call' = [call EXCEPT ![c] = loopAt(r1, i, e, "throw")]
    /\ UNCHANGED <<cfgVars, imgVars, detector, initialized, engines, initPc, session>>

\* extractFrame rejected: console.warn in the catch, then the next iteration
AfterFrameFailed(c) ==
    /\ call[c].pc = "frame"
    /\ call[c].wait = "err"
    /\ \E out \in Results \cup {"throw"} :
        LET e == detector
            i == call[c].idx
            r1 == Log(call[c], Ev("warn", i, 0, 0, call[c].err))
        IN  /\ (i < Len(r1.plan)) => (out = "throw")
            /\ call' = [call EXCEPT ![c] = loopAt(r1, i + 1, e, out)]
            /\ session' = engineAfter(session,
                                      Appended(call[c], loopAt(r1, i + 1, e, out)), c)
    /\ UNCHANGED <<cfgVars, imgVars, detector, initialized, engines, initPc>>

\* the signals a media handle delivers to the listeners of the call
Signals == {"seeked", "canplaythrough", "error"}

\* the handlers of a call whose promises have all settled, run by a signal:
\* what each listener still on the handle does.  onSeeked draws the frame,
\* removes itself and clears its timer; extractFrame.onError removes the
\* 'seeked' listener of its extraction and clears its timer; the handlers of
\* ensureVideoReady and loadVideoFile remove both their listeners and clear
\* their timer, loadVideoFile.onError releasing the URL.  resolve and reject
\* do nothing on a settled promise.
RECURSIVE runListeners(_, _)
runListeners(r, ls) ==
    IF ls = {} THEN r
    ELSE LET l == CHOOSE x \in ls : \A y \in ls : x.i <= y.i
             r1 == IF l.w = "frame" /\ l.ev = "seeked"
                   THEN [Log(r, Ev("capture", l.i, 0, 0, "")) EXCEPT
                            !.listeners = @ \ {l},
                            !.timers = @ \ {T("frame", l.i)}]
                   ELSE IF l.w = "frame"
                   THEN [r EXCEPT
                            !.listeners = @ \ {L("seeked", "frame", l.i)},
                            !.timers = @ \ {T("frame", l.i)}]
                   ELSE IF l.w = "ready"
                   THEN [r EXCEPT !.listeners = @ \ ReadyListeners,
                                  !.timers = @ \ {T("ready", 0)}]
                   ELSE IF l.ev = "error"
                   THEN [Log(r, Ev("revokeObjectURL", 0, 0, 0, "")) EXCEPT
                            !.listeners = @ \ LoadListeners,
                            !.timers = @ \ {T("load", 0)}]
                   ELSE [r EXCEPT !.listeners = @ \ LoadListeners,
                                  !.timers = @ \ {T("load", 0)}]
         IN  runListeners(r1, (ls \ {l}) \cap r1.listeners)

\* the host delivers a signal on the handle of a call that has settled: a
\* 'seeked' answers a seek that was still pending, an 'error' ends every
\* pending seek; the listeners of the call still registered for it run
LateSignal(c) ==
    /\ MicrotasksEmpty
    /\ Settled(c)
    /\ \E sig \in Signals \ call[c].lateSignals :
        /\ sig = "seeked" => call[c].pending # {}
        /\ \E answered \in (IF sig = "seeked"
                              THEN {{j} : j \in call[c].pending}
                              ELSE IF sig = "error" THEN {call[c].pending}
                              ELSE {{}}) :
              call' = [call EXCEPT ![c] =
                  runListeners([@ EXCEPT !.lateSignals = @ \cup {sig},
                                         !.pending = @ \ answered],
                               {l \in call[c].listeners : l.ev = sig})]
    /\ UNCHANGED <<cfgVars, imgVars, detector, initialized, engines, initPc, session>>

\* ------------------------------------------------------------------ ImageProcessor
\* ImageProcessor.init(): if (this.initialized) return; else await init()
ImgInitCall(i) ==
    /\ imgInitPc[i] = "idle"
    /\ imgInitPc' = [imgInitPc EXCEPT ![i] =
                        IF imgInitialized THEN "done" ELSE "awaitWasm"]
    /\ UNCHANGED <<cfgVars, detector, initialized, engines, initPc, session, call,
                   imgDetector, imgInitialized, imgEngines, imgCall>>

\* the WASM initialisation resolved: the ImageProcessor's two assignments
ImgInitWasmResolved(i) ==
    /\ imgInitPc[i] = "awaitWasm"
    /\ MicrotasksEmpty
    /\ imgEngines' = imgEngines + 1
    /\ imgDetector' = imgEngines + 1
    /\ imgInitialized' = TRUE
    /\ imgInitPc' = [imgInitPc EXCEPT ![i] = "done"]
    /\ UNCHANGED <<cfgVars, detector, initialized, engines, initPc, session, call, imgCall>>

ImgInitWasmRejected(i) ==
    /\ imgInitPc[i] = "awaitWasm"
    /\ MicrotasksEmpty
    /\ imgInitPc' = [imgInitPc EXCEPT ![i] = "failed"]
    /\ UNCHANGED <<cfgVars, detector, initialized, engines, initPc, session, call,
                   imgDetector, imgInitialized, imgEngines, imgCall>>

\* detectFromImage as it would be without the check of its first line
detectFromImage_noCheck(out) ==
    [pc |-> IF out = "throw" THEN "rejected" ELSE "resolved",
     log |-> <<Ev("toImageData", 0, 0, 0, ""),
               Ev("detect_from_image", 0, 0, imgDetector, out),
               Ev(IF out = "throw" THEN "reject" ELSE "resolve", 0, 0, 0, out)>>]

\* ImageProcessor.detectFromImage(source): the check, toImageData, then
\* detect_from_image, which returns out or throws; no await in between
detectFromImage(out) ==
    IF imgDetector = 0
    THEN [pc |-> "rejected", log |-> <<Ev("reject", 0, 0, 0, "Not initialized")>>]
    ELSE [pc |-> IF out = "throw" THEN "rejected" ELSE "resolved",
          log |-> <<Ev("toImageData", 0, 0, 0, ""),
                    Ev("detect_from_image", 0, 0, imgDetector, out),
                    Ev(IF out = "throw" THEN "reject" ELSE "resolve", 0, 0, 0, out)>>]

DetectFromImage ==
    /\ imgCall.pc = "idle"
    /\ \E out \in Results \cup {"throw"} :
        /\ imgDetector = 0 => out = "throw"
        /\ imgCall' = detectFromImage(out)
    /\ UNCHANGED <<cfgVars, detector, initialized, engines, initPc, session, call,
                   imgDetector, imgInitialized, imgEngines, imgInitPc>>

\* ------------------------------------------------------------------ ChromaDetect
\* { ...a, ...b }: the keys b names override those of a
Merge(a, b) == [k \in Keys |-> IF b[k] # Unset THEN b[k] ELSE a[k]]

\* the engine's set_config(options): the thresholds named are updated
set_config(thresholds, options) == Merge(thresholds, options)

\* setConfig of a processor whose detector is d and whose engines hold the
\* thresholds ec: if (this.detector) this.detector.set_config(config)
setConfig(d, ec, cfg) ==
    IF d # 0 THEN [ec EXCEPT ![d] = set_config(@, cfg)] ELSE ec

\* the DetectionConfig objects passed to ChromaDetect.setConfig: at least one
\* key named
ConfigArgs ==
    {cfg \in [Keys -> ConfigValues \cup {Unset}] :
        \E k \in Keys : cfg[k] # Unset}

\* ChromaDetect.setConfig(config): this.config = { ...this.config, ...config },
\* then both processors are given this.config
ChromaDetectSetConfig ==
    /\ Len(configCalls) < MaxSetConfig
    /\ \E cfg \in ConfigArgs :
        LET merged == Merge(config, cfg)
        IN  /\ config' = merged
            /\ configCalls' = Append(configCalls, cfg)
            /\ imgEngineConfig' = setConfig(imgDetector, imgEngineConfig, merged)
            /\ engineConfig' = setConfig(detector, engineConfig, merged)
    /\ UNCHANGED <<imgVars, detector, initialized, engines, initPc, session, call>>

\* ChromaDetect.init(): Promise.all([this.imageProcessor.init(),
\* this.videoProcessor.init()]), each init() run up to its await
ChromaDetectInit(i) ==
    /\ initPc[i] = "idle"
    /\ imgInitPc[i] = "idle"
    /\ imgInitPc' = [imgInitPc EXCEPT ![i] =
                        IF imgInitialized THEN "done" ELSE "awaitWasm"]
    /\ initPc' = [initPc EXCEPT ![i] = IF initialized THEN "done" ELSE "awaitWasm"]
    /\ UNCHANGED <<cfgVars, detector, initialized, engines, session, call,
                   imgDetector, imgInitialized, imgEngines, imgCall>>

\* ChromaDetect.detectFromVideo delegates to the VideoProcessor; here with a
\* handle that is ready and a plan of one timestamp
DetectFromVideoOne(c) ==
    detectFromVideo(c, {x \in SmallInputs : /\ ~x.isFile
                                            /\ x.rs = HAVE_ENOUGH_DATA
                                            /\ x.count = 1})

\* ChromaDetect.detectFromImage(source) with a File, up to its await:
\* loadImage creates the Image and the object URL, assigns onload and onerror
\* and sets img.src
DetectFromImageFile ==
    /\ imgCall.pc = "idle"
    /\ imgCall' = [pc |-> "loadImage",
                   log |-> <<Ev("createObjectURL", 0, 0, 0, "")>>]
    /\ UNCHANGED <<cfgVars, detector, initialized, engines, initPc, session, call,
                   imgDetector, imgInitialized, imgEngines, imgInitPc>>

\* loadImage.onload, run by the host's answer to the one request img.src made
LoadImageOnLoad ==
    /\ imgCall.pc = "loadImage"
    /\ imgCall' = [pc |-> "loaded",
                   log |-> Append(imgCall.log, Ev("revokeObjectURL", 0, 0, 0, ""))]
    /\ UNCHANGED <<cfgVars, detector, initialized, engines, initPc, session, call,
                   imgDetector, imgInitialized, imgEngines, imgInitPc>>

\* LoadImageOnError as it would be without the revokeObjectURL call
LoadImageOnError_noRevoke ==
    /\ imgCall.pc = "loadImage"
    /\ imgCall' = [pc |-> "loadFailed", log |-> imgCall.log]
    /\ UNCHANGED <<cfgVars, detector, initialized, engines, initPc, session, call,
                   imgDetector, imgInitialized, imgEngines, imgInitPc>>

\* loadImage.onerror
LoadImageOnError ==
    /\ imgCall.pc = "loadImage"
    /\ imgCall' = [pc |-> "loadFailed",
                   log |-> Append(imgCall.log, Ev("revokeObjectURL", 0, 0, 0, ""))]
    /\ UNCHANGED <<cfgVars, detector, initialized, engines, initPc, session, call,
                   imgDetector, imgInitialized, imgEngines, imgInitPc>>

\* loadImage resolved: return this.imageProcessor.detectFromImage(img)
AfterLoadImage ==
    /\ imgCall.pc = "loaded"
    /\ \E out \in Results \cup {"throw"} :
        /\ imgDetector = 0 => out = "throw"
        /\ imgCall' = [pc |-> detectFromImage(out).pc,
                       log |-> imgCall.log \o detectFromImage(out).log]
    /\ UNCHANGED <<cfgVars, detector, initialized, engines, initPc, session, call,
                   imgDetector, imgInitialized, imgEngines, imgInitPc>>

\* loadImage rejected: the call rejects with its error
AfterLoadImageFailed ==
    /\ imgCall.pc = "loadFailed"
    /\ imgCall' = [pc |-> "rejected",
                   log |-> Append(imgCall.log,
                                  Ev("reject", 0, 0, 0, "Failed to load image"))]
    /\ UNCHANGED <<cfgVars, detector, initialized, engines, initPc, session, call,
                   imgDetector, imgInitialized, imgEngines, imgInitPc>>

\* ------------------------------------------------------------------ specifications
\* the actions of a detectFromVideo call while it waits for the source
LoadHandlers(c) ==
    \/ LoadOnCanPlayThrough(c)
    \/ LoadOnError(c)
    \/ LoadTimeout(c)
    \/ AfterLoad(c)
    \/ AfterLoadFailed(c)
    \/ ReadyOnCanPlayThrough(c)
    \/ ReadyOnError(c)
    \/ ReadyTimeout(c)
    \/ AfterReadyFailed(c)

\* the actions of a detectFromVideo call once the source is ready
FrameHandlers(c) ==
    \/ AfterReady(c)
    \/ FrameOnSeeked(c)
    \/ FrameOnError(c)
    \/ FrameTimeout(c)
    \/ AfterFrame(c)
    \/ AfterFrameFailed(c)

InitStep(i) ==
    \/ InitCall(i)
    \/ InitWasmResolved(i)
    \/ InitWasmRejected(i)

ImgInitStep(i) ==
    \/ ImgInitCall(i)
    \/ ImgInitWasmResolved(i)
    \/ ImgInitWasmRejected(i)

\* one init() call and one detectFromVideo call on a VideoProcessor
Next ==
    \/ InitStep(1)
    \/ DetectFromVideo(1)
    \/ LoadHandlers(1)
    \/ FrameHandlers(1)

Spec == Init /\ [][Next]_vars

\* a VideoProcessor and an ImageProcessor, one init() call and one detection
\* call on each
NextInit ==
    \/ InitStep(1)
    \/ ImgInitStep(1)
    \/ DetectFromImage
    \/ DetectFromVideoSmall(1)
    \/ LoadHandlers(1)
    \/ FrameHandlers(1)

SpecInit == Init /\ [][NextInit]_vars

\* two init() calls and two detectFromVideo calls on a VideoProcessor, each
\* made at any time, before or after the other has settled
NextConc ==
    \/ \E i \in Inits : InitStep(i)
    \/ \E c \in Calls : DetectFromVideoConc(c) \/ FrameHandlers(c)

SpecConc == Init /\ [][NextConc]_vars

\* Spec with the scheduling the event loop guarantees: a continuation that is
\* queued runs, and a timer that is armed and not cleared fires.  Nothing is
\* assumed of the host's signals, of init() or of the caller.
Fairness(c) ==
    /\ WF_vars(AfterLoad(c))
    /\ WF_vars(AfterLoadFailed(c))
    /\ WF_vars(AfterReady(c))
    /\ WF_vars(AfterReadyFailed(c))
    /\ WF_vars(AfterFrame(c))
    /\ WF_vars(AfterFrameFailed(c))
    /\ WF_vars(LoadTimeout(c))
    /\ WF_vars(ReadyTimeout(c))
    /\ WF_vars(FrameTimeout(c))

\* the strategy and the duration decide the timestamps, not how many there
\* are: one of each is enough for the call's progress
LiveInputs ==
    {x \in Inputs : x.strategy = "uniform" /\ x.duration = 10}

DetectFromVideoLive(c) == detectFromVideo(c, LiveInputs)

NextLive ==
    \/ InitStep(1)
    \/ DetectFromVideoLive(1)
    \/ LoadHandlers(1)
    \/ FrameHandlers(1)

SpecLive == Init /\ [][NextLive]_vars /\ Fairness(1)

\* Spec with the signals the host delivers after the call has settled
NextLate ==
    \/ InitStep(1)
    \/ DetectFromVideoLive(1)
    \/ LoadHandlers(1)
    \/ FrameHandlers(1)
    \/ LateSignal(1)

SpecLate == Init /\ [][NextLate]_vars

\* calculateFrameTimestamps called on its own, as the tests call it: the
\* arguments are held in the fields of call 1, the result is put in its plan
PlanDurations == {1, 10, 100}
PlanMaxDurations == {5, 10, 30}

PlanInputs ==
    [duration : PlanDurations, count : 1..PlanMaxCount,
     strategy : Strategies, maxDuration : PlanMaxDurations]

InitPlan ==
    /\ detector = 0
    /\ initialized = FALSE
    /\ engines = 0
    /\ initPc = [i \in Inits |-> "idle"]
    /\ session = [e \in Engines |-> 0]
    /\ \E x \in PlanInputs :
          call = [c \in Calls |->
                    IF c = 1
                    THEN [IdleCall EXCEPT !.duration = x.duration,
                                          !.count = x.count,
                                          !.strategy = x.strategy,
                                          !.maxDuration = x.maxDuration]
                    ELSE IdleCall]
    /\ imgDetector = 0
    /\ imgInitialized = FALSE
    /\ imgEngines = 0
    /\ imgInitPc = [i \in Inits |-> "idle"]
    /\ imgCall = [pc |-> "idle", log |-> <<>>]
    /\ InitConfig

CalculateFrameTimestamps(c) ==
    /\ call[c].count > 0
    /\ call[c].plan = <<>>
    /\ call' = [call EXCEPT ![c].plan =
                    calculateFrameTimestamps(call[c].duration, call[c].count,
                        call[c].strategy, call[c].maxDuration)]
    /\ UNCHANGED <<cfgVars, imgVars, detector, initialized, engines, initPc, session>>

NextPlan == CalculateFrameTimestamps(1)

SpecPlan == InitPlan /\ [][NextPlan]_vars

\* calculateFrameTimestamps called twice, each time with its own arguments,
\* while an init() call of the processor goes on
InitPure ==
    /\ detector = 0
    /\ initialized = FALSE
    /\ engines = 0
    /\ initPc = [i \in Inits |-> "idle"]
    /\ session = [e \in Engines |-> 0]
    /\ \E x \in [Calls -> PlanInputs] :
          call = [c \in Calls |->
                    [IdleCall EXCEPT !.duration = x[c].duration,
                                     !.count = x[c].count,
                                     !.strategy = x[c].strategy,
                                     !.maxDuration = x[c].maxDuration]]
    /\ imgDetector = 0
    /\ imgInitialized = FALSE
    /\ imgEngines = 0
    /\ imgInitPc = [i \in Inits |-> "idle"]
    /\ imgCall = [pc |-> "idle", log |-> <<>>]
    /\ InitConfig

NextPure ==
    \/ InitStep(1)
    \/ \E c \in Calls : CalculateFrameTimestamps(c)

SpecPure == InitPure /\ [][NextPure]_vars

\* a ChromaDetect wrapper: one init() call, setConfig calls at any time, one
\* detectFromImage call and one detectFromVideo call
NextConfig ==
    \/ ChromaDetectInit(1)
    \/ InitWasmResolved(1)
    \/ InitWasmRejected(1)
    \/ ImgInitWasmResolved(1)
    \/ ImgInitWasmRejected(1)
    \/ ChromaDetectSetConfig
    \/ DetectFromImage
    \/ DetectFromVideoOne(1)
    \/ FrameHandlers(1)

SpecConfig == Init /\ [][NextConfig]_vars

\* detectFromVideo with a config that has any of the three keys or none, on
\* a handle that is ready, up to the first extraction of the plan
DefaultsInputs ==
    {x \in [isFile : {FALSE}, srcBlob : {FALSE}, count : 0..2,
            strategy : {"", "keyframes"}, maxDuration : {0, 5},
            given : SUBSET VideoConfigKeys,
            duration : {10, 40}, rs : {HAVE_ENOUGH_DATA}] :
        /\ "frameSampleCount" \in x.given <=> x.count # 0
        /\ "sampleStrategy" \in x.given <=> x.strategy # ""
        /\ "maxDuration" \in x.given <=> x.maxDuration # 0}

DetectFromVideoDefaults(c) == detectFromVideo(c, DefaultsInputs)

NextDefaults ==
    \/ InitStep(1)
    \/ DetectFromVideoDefaults(1)
    \/ AfterReady(1)

SpecDefaults == Init /\ [][NextDefaults]_vars

\* a ChromaDetect wrapper: one init() call, setConfig calls at any time and
\* one detectFromImage call, on a File or on an image
NextImage ==
    \/ ChromaDetectInit(1)
    \/ ChromaDetectSetConfig
    \/ InitWasmResolved(1)
    \/ InitWasmRejected(1)
    \/ ImgInitWasmResolved(1)
    \/ ImgInitWasmRejected(1)
    \/ DetectFromImage
    \/ DetectFromImageFile
    \/ LoadImageOnLoad
    \/ LoadImageOnError
    \/ AfterLoadImage
    \/ AfterLoadImageFailed

SpecImage == Init /\ [][NextImage]_vars

\* ------------------------------------------------------------------ claims
Last(log) == log[Len(log)]
HasOp(log, op) == Pos(log, op) # {}
SettlePos(log) == Pos(log, "resolve") \cup Pos(log, "reject")

\* the call failed the check of line 26
NotInitialized(c) ==
    /\ call[c].pc = "rejected"
    /\ Last(call[c].log).v = "Not initialized"

\* start_video_analysis returned: the call started a session
Started(c) ==
    \E k \in Pos(call[c].log, "start_video_analysis") : call[c].log[k].v = "ok"

\* the value get_video_consensus returned to the call, "throw" if it threw
ConsensusOf(c) ==
    call[c].log[CHOOSE q \in Pos(call[c].log, "get_video_consensus") : TRUE].v

FrameFailures == {"Seek failed", "Frame extraction timeout"}

\* C1: a call on a File that passed the initialisation check creates exactly
\* one object URL, never releases it twice, and once the call has settled has
\* released it exactly once, the release coming before the settlement.
C1_OneUrlOneRelease ==
    \A c \in Calls : call[c].isFile =>
        LET log == call[c].log
            created == CountOp(log, "createObjectURL")
            revoked == CountOp(log, "revokeObjectURL")
        IN  /\ created <= 1
            /\ revoked <= created
            /\ (call[c].pc # "idle" /\ ~NotInitialized(c)) => created = 1
            /\ (Settled(c) /\ ~NotInitialized(c)) =>
                  /\ revoked = 1
                  /\ \A p \in Pos(log, "revokeObjectURL"), q \in SettlePos(log) :
                        p < q

\* a File call that rejected because get_video_consensus threw, URL released
C1_Witness ==
    \E c \in Calls :
        /\ call[c].isFile
        /\ call[c].pc = "rejected"
        /\ HasOp(call[c].log, "get_video_consensus")
        /\ CountOp(call[c].log, "revokeObjectURL") = 1

\* C2: a call that started a session calls get_video_consensus at most once,
\* and by the time it has settled exactly once, after every timestamp of the
\* plan was processed (submitted or skipped) and after every seek; if the
\* engine returned a value, null included, the call resolved with that value.
C2_ConsensusOnceAndReturned ==
    \A c \in Calls :
        LET log == call[c].log
        IN  /\ CountOp(log, "get_video_consensus") <= 1
            /\ (Started(c) /\ Settled(c)) =>
                  /\ CountOp(log, "get_video_consensus") = 1
                  /\ \A q \in Pos(log, "get_video_consensus") :
                        /\ \A i \in 1..call[c].count :
                              \E p \in 1..(q - 1) :
                                  /\ log[p].op \in {"add_video_frame", "warn"}
                                  /\ log[p].i = i
                        /\ \A p \in Pos(log, "seek") \cup Pos(log, "add_video_frame")
                                    \cup Pos(log, "warn") : p < q
                        /\ log[q].v # "throw" =>
                              /\ call[c].pc = "resolved"
                              /\ Last(log).v = log[q].v

\* every extraction failed, the engine returned null, the call resolved null
C2_Witness ==
    \E c \in Calls :
        /\ call[c].pc = "resolved"
        /\ ~HasOp(call[c].log, "add_video_frame")
        /\ call[c].count >= 2
        /\ ConsensusOf(c) = "null"
        /\ Last(call[c].log).v = "null"

\* C3: a seek error or an extraction timeout is never the reason the call
\* rejects; the skip of a timestamp that is not the last is followed at once
\* by the extraction of the next one; and a call that skipped frames and got a
\* consensus from the engine resolved with it.
C3_FrameFailureContained ==
    \A c \in Calls :
        LET log == call[c].log
        IN  /\ call[c].pc = "rejected" => Last(log).v \notin FrameFailures
            /\ \A p \in Pos(log, "warn") :
                  log[p].v \in FrameFailures =>
                      /\ log[p].i < call[c].count =>
                            /\ Len(log) >= p + 2
                            /\ log[p + 2].op = "seek"
                            /\ log[p + 2].i = log[p].i + 1
                      /\ (Settled(c) /\ ConsensusOf(c) # "throw") =>
                            /\ call[c].pc = "resolved"
                            /\ Last(log).v = ConsensusOf(c)

\* frame 1 failed to seek, a later frame was captured, the call resolved
C3_Witness ==
    \E c \in Calls :
        /\ call[c].pc = "resolved"
        /\ \E p \in Pos(call[c].log, "warn") :
              /\ call[c].log[p].v = "Seek failed"
              /\ call[c].log[p].i = 1
        /\ \E p \in Pos(call[c].log, "capture") : call[c].log[p].i > 1

\* C4: an extraction that has not been answered has its timer armed, so the
\* timeout can reject it, and it is rejected by nothing but a seek error or
\* that timeout; a timestamp whose extraction timed out has its diagnostic and
\* no add_video_frame, the timeout is never the reason the call rejects, and
\* with a consensus from the engine the call resolves.
C4_TimeoutIsSkip ==
    \A c \in Calls :
        LET log == call[c].log
        IN  /\ (call[c].pc = "frame" /\ call[c].wait = "pending") =>
                  T("frame", call[c].idx) \in call[c].timers
            /\ (call[c].pc = "frame" /\ call[c].wait = "err") =>
                  /\ call[c].err \in FrameFailures
                  /\ call[c].err = "Frame extraction timeout" <=>
                        L("error", "frame", call[c].idx) \notin call[c].listeners
            /\ call[c].pc = "rejected" =>
                  Last(log).v # "Frame extraction timeout"
            /\ \A p \in Pos(log, "warn") :
                  log[p].v = "Frame extraction timeout" =>
                      /\ \A q \in Pos(log, "add_video_frame") : log[q].i # log[p].i
                      /\ (Settled(c) /\ ConsensusOf(c) # "throw") =>
                            call[c].pc = "resolved"

\* the only frame of the plan timed out and the call resolved
C4_Witness ==
    \E c \in Calls :
        /\ call[c].pc = "resolved"
        /\ \E p \in Pos(call[c].log, "warn") :
              call[c].log[p].v = "Frame extraction timeout"
        /\ ~HasOp(call[c].log, "add_video_frame")

\* C5: of two frames submitted by one call, the one with the smaller
\* timestamp of the plan was submitted first.
C5_SubmittedInAscendingOrder ==
    \A c \in Calls :
        LET log == call[c].log
        IN  \A p, q \in Pos(log, "add_video_frame") :
                Less(call[c].plan[log[p].i], call[c].plan[log[q].i]) => p < q

\* a keyframes plan of three timestamps: the first and the third submitted,
\* the second skipped
C5_Witness ==
    \E c \in Calls :
        /\ call[c].strategy = "keyframes"
        /\ call[c].count = 3
        /\ {call[c].log[p].i : p \in Pos(call[c].log, "add_video_frame")} = {1, 3}
        /\ Settled(c)

NotInitializedLog == <<Ev("reject", 0, 0, 0, "Not initialized")>>

\* C6: as long as no init() call of a processor has completed, every
\* detection call made on it has rejected with 'Not initialized' and has done
\* nothing else: for detectFromVideo no object URL, no listener, no timer, no
\* seek and no engine call; for detectFromImage no detect_from_image.
C6_NotInitializedFailsFirst ==
    /\ (\A i \in Inits : initPc[i] # "done") =>
          \A c \in Calls : call[c].pc # "idle" =>
              /\ call[c].pc = "rejected"
              /\ call[c].log = NotInitializedLog
              /\ call[c].listeners = {}
              /\ call[c].timers = {}
              /\ call[c].pending = {}
    /\ ((\A i \in Inits : imgInitPc[i] # "done") /\ imgCall.pc # "idle") =>
          /\ imgCall.pc = "rejected"
          /\ imgCall.log = NotInitializedLog

\* both init() calls are still waiting for the WASM module; a detectFromVideo
\* call on a File and a detectFromImage call have both rejected
C6_Witness ==
    /\ initPc[1] = "awaitWasm"
    /\ imgInitPc[1] = "awaitWasm"
    /\ call[1].isFile
    /\ call[1].log = NotInitializedLog
    /\ imgCall.log = NotInitializedLog

LoadFailures == {"Failed to load video", "Video load timeout", "Video failed to load"}

\* C7: for a File, when loadVideoFile has rejected the URL is already
\* released, and when the call has rejected for a load error or load timeout
\* (of the file load or of the readiness wait) the release comes before the
\* rejection.
C7_ReleaseBeforeRejection ==
    \A c \in Calls : call[c].isFile =>
        LET log == call[c].log
        IN  /\ (call[c].pc = "load" /\ call[c].wait = "err") =>
                  CountOp(log, "revokeObjectURL") = 1
            /\ \A q \in Pos(log, "reject") :
                  log[q].v \in LoadFailures =>
                      \E p \in Pos(log, "revokeObjectURL") : p < q

\* a File that loaded, then stalled, and whose readiness wait timed out
C7_Witness ==
    \E c \in Calls :
        /\ call[c].isFile
        /\ call[c].pc = "rejected"
        /\ HasOp(call[c].log, "load()")
        /\ Last(call[c].log).v = "Video load timeout"

EngineOps == {"start_video_analysis", "add_video_frame", "get_video_consensus"}

\* C8: once the file load or the readiness wait has failed, the call is
\* about to reject or has rejected with that failure, and it has called no
\* engine method and requested no seek.
C8_LoadFailureRejects ==
    \A c \in Calls : call[c].err \in LoadFailures =>
        /\ \/ call[c].pc \in {"load", "ready"} /\ call[c].wait = "err"
           \/ call[c].pc = "rejected" /\ Last(call[c].log).v = call[c].err
        /\ \A k \in 1..Len(call[c].log) :
              call[c].log[k].op \notin EngineOps \cup {"seek"}
        /\ call[c].pending = {}

\* a handle that was not ready: its readiness wait failed and the call rejected
C8_Witness ==
    \E c \in Calls :
        /\ ~call[c].isFile
        /\ call[c].pc = "rejected"
        /\ call[c].err = "Video failed to load"

\* C9 as stated: start_video_analysis is never called while a session that
\* another call started on the engine has not been closed by
\* get_video_consensus.
C9_NeverTwoSessions ==
    \A c \in Calls : call[c].found = {}

\* C9 as amended: a call closes the session it opened on the processor's
\* engine, by get_video_consensus, before it settles; so the session that
\* start_video_analysis finds open is never that of a call that had settled
\* when this call was made: only overlapping calls have two sessions open.
C9_SessionsCloseWithTheirCall ==
    /\ \A d \in Calls : OpenSessionOn(d, detector) => ~Settled(d)
    /\ \A c \in Calls : call[c].found \cap call[c].after = {}

\* two calls one after the other: the second was made after the first had
\* settled, both started a session, the second found none open
C9_Witness ==
    \E c, d \in Calls :
        /\ d \in call[c].after
        /\ Started(d)
        /\ Started(c)
        /\ call[c].found = {}

\* C10: a seek is requested only when the host has answered every earlier
\* seek on the handle.
C10_NoConcurrentSeeks ==
    \A c \in Calls :
        \A k \in Pos(call[c].log, "seek") : call[c].log[k].j = 0

\* C11: a detectFromVideo call that was made eventually settles, whatever
\* signals the host delivers, provided queued continuations run and armed
\* timers fire.
C11_EveryCallSettles ==
    \A c \in Calls : (call[c].pc # "idle") ~> Settled(c)

\* the host answered nothing: the readiness wait of a File's handle was
\* entered with the handle ready, every extraction of a plan of two or more
\* timed out, and the call resolved
C11_Witness ==
    \E c \in Calls :
        /\ call[c].pc = "resolved"
        /\ call[c].isFile
        /\ call[c].count >= 2
        /\ ~HasOp(call[c].log, "capture")
        /\ \A i \in 1..call[c].count :
              \E p \in Pos(call[c].log, "warn") :
                  /\ call[c].log[p].i = i
                  /\ call[c].log[p].v = "Frame extraction timeout"

\* the plan of call c has been computed
Planned(c) == call[c].plan # <<>>

\* Math.min(duration, maxDuration) of call c
EffectiveDuration(c) == Min(call[c].duration, call[c].maxDuration)

\* n / d of the effective duration of call c
Frac(c, n, d) == <<n * EffectiveDuration(c), d>>

\* C12: a uniform plan has exactly count timestamps, strictly ascending, each
\* strictly greater than 0 and strictly less than the effective duration.
C12_UniformInsideOpenInterval ==
    \A c \in Calls : (Planned(c) /\ call[c].strategy = "uniform") =>
        LET plan == call[c].plan
        IN  /\ Len(plan) = call[c].count
            /\ \A k \in 1..Len(plan) :
                  /\ Less(<<0, 1>>, plan[k])
                  /\ Less(plan[k], Frac(c, 1, 1))
            /\ \A k \in 1..(Len(plan) - 1) : Less(plan[k], plan[k + 1])

\* a uniform plan of the largest count over a duration the cap cuts
C12_Witness ==
    \E c \in Calls :
        /\ Planned(c)
        /\ call[c].strategy = "uniform"
        /\ call[c].count = PlanMaxCount
        /\ call[c].maxDuration < call[c].duration

\* call c was given these arguments
PlanArgs(c, duration, count, strategy, maxDuration) ==
    /\ call[c].duration = duration
    /\ call[c].count = count
    /\ call[c].strategy = strategy
    /\ call[c].maxDuration = maxDuration

\* C13: the k-th timestamp of a uniform plan (k from 1) is
\* k * min(duration, maxDuration) / (count + 1); consecutive timestamps are one
\* and the same distance apart, that of the first from 0; and duration 10,
\* count 4, maxDuration 30 as well as duration 100, count 4, maxDuration 10
\* give 2, 4, 6, 8.
C13_UniformFormula ==
    \A c \in Calls : (Planned(c) /\ call[c].strategy = "uniform") =>
        LET plan == call[c].plan
        IN  /\ \A k \in 1..Len(plan) :
                  Eq(plan[k], Frac(c, k, call[c].count + 1))
            /\ \A k \in 1..(Len(plan) - 1) :
                  Eq(Sub(plan[k + 1], plan[k]), plan[1])
            /\ (\/ PlanArgs(c, 10, 4, "uniform", 30)
                \/ PlanArgs(c, 100, 4, "uniform", 10)) =>
                  /\ Len(plan) = 4
                  /\ \A k \in 1..4 : Eq(plan[k], <<2 * k, 1>>)

\* the plan for duration 100, count 4, maxDuration 10 has been computed
C13_Witness ==
    \E c \in Calls :
        /\ Planned(c)
        /\ PlanArgs(c, 100, 4, "uniform", 10)

\* C14: a plan of either strategy has exactly count timestamps, in ascending
\* order, each at least 0 and at most min(duration, maxDuration), so at most
\* the caller's maxDuration and at most the video's duration.
C14_PlanContract ==
    \A c \in Calls : Planned(c) =>
        LET plan == call[c].plan
        IN  /\ Len(plan) = call[c].count
            /\ \A k \in 1..(Len(plan) - 1) : Leq(plan[k], plan[k + 1])
            /\ \A k \in 1..Len(plan) :
                  /\ Leq(<<0, 1>>, plan[k])
                  /\ Leq(plan[k], Frac(c, 1, 1))
                  /\ Leq(plan[k], <<call[c].maxDuration, 1>>)
                  /\ Leq(plan[k], <<call[c].duration, 1>>)

\* a keyframes plan with samples in all three windows, of a video shorter
\* than the cap
C14_Witness ==
    \E c \in Calls :
        /\ Planned(c)
        /\ call[c].strategy = "keyframes"
        /\ earlyCountOf(call[c].count) >= 2
        /\ call[c].duration < call[c].maxDuration

\* the positions of the plan of call c whose timestamp t has lo <= t < hi
InWindow(c, lo, hi) ==
    {k \in 1..Len(call[c].plan) :
        Leq(lo, call[c].plan[k]) /\ Less(call[c].plan[k], hi)}

\* C15: in a keyframes plan, with edgeCount = floor(0.4 * count), exactly
\* edgeCount timestamps lie in [0, 0.1 e), exactly edgeCount in [0.9 e, e) and
\* the other count - 2 * edgeCount in [0.3 e, 0.7 e], e being the effective
\* duration; in each window they start at its lower bound and are evenly
\* spaced (a tenth of e over edgeCount apart at the edges, four tenths of e
\* over their number apart in the middle); and for duration 10, count 10 the
\* first timestamp is below 1.1 and the seventh above 8.9.
C15_KeyframeWindows ==
    \A c \in Calls : (Planned(c) /\ call[c].strategy = "keyframes") =>
        LET plan == call[c].plan
            count == call[c].count
            edgeCount == (4 * count) \div 10
            middleCount == count - 2 * edgeCount
        IN  /\ Cardinality(InWindow(c, <<0, 1>>, Frac(c, 1, 10))) = edgeCount
            /\ Cardinality(InWindow(c, Frac(c, 9, 10), Frac(c, 1, 1))) = edgeCount
            /\ Cardinality({k \in 1..Len(plan) :
                    Leq(Frac(c, 3, 10), plan[k]) /\ Leq(plan[k], Frac(c, 7, 10))})
                  = middleCount
            /\ \A i \in 1..edgeCount :
                  /\ Eq(plan[i], Frac(c, i - 1, 10 * edgeCount))
                  /\ Eq(plan[edgeCount + middleCount + i],
                        Add(Frac(c, 9, 10), Frac(c, i - 1, 10 * edgeCount)))
            /\ \A i \in 1..middleCount :
                  Eq(plan[edgeCount + i],
                     Add(Frac(c, 3, 10), Frac(c, 4 * (i - 1), 10 * middleCount)))
            /\ (call[c].count = 10 /\ call[c].duration = 10
                    /\ call[c].maxDuration >= 10) =>
                  /\ Less(plan[1], <<11, 10>>)
                  /\ Less(<<89, 10>>, plan[7])

\* the plan for duration 10, count 10, keyframes, maxDuration 30
C15_Witness ==
    \E c \in Calls :
        /\ Planned(c)
        /\ PlanArgs(c, 10, 10, "keyframes", 30)
        /\ Eq(call[c].plan[7], <<9, 1>>)

\* C16: a keyframes plan for a count with floor(0.4 * count) = 0 has exactly
\* count timestamps, each of them a number (no division by zero was made) in
\* the middle window [0.3 e, 0.7 e] of the effective duration e.
C16_SmallCountsInMiddleWindow ==
    \A c \in Calls :
        (/\ Planned(c)
         /\ call[c].strategy = "keyframes"
         /\ (4 * call[c].count) \div 10 = 0) =>
            LET plan == call[c].plan
            IN  /\ Len(plan) = call[c].count
                /\ \A k \in 1..Len(plan) :
                      /\ plan[k][2] > 0
                      /\ Leq(Frac(c, 3, 10), plan[k])
                      /\ Leq(plan[k], Frac(c, 7, 10))

\* the keyframes plan for count 2: three tenths and one half of the duration
C16_Witness ==
    \E c \in Calls :
        /\ Planned(c)
        /\ call[c].strategy = "keyframes"
        /\ call[c].count = 2
        /\ Eq(call[c].plan[1], Frac(c, 3, 10))
        /\ Eq(call[c].plan[2], Frac(c, 1, 2))

\* C17: when ensureVideoReady has read a readyState of 4 or more, its promise
\* is resolved at once and the handle is as it was: no listener of the wait is
\* registered, no timer armed, load() not called; and running the check again
\* on the handle changes nothing at all.
C17_ReadyHandleUntouched ==
    \A c \in Calls :
        (call[c].pc = "ready" /\ call[c].readyState >= HAVE_ENOUGH_DATA) =>
            /\ call[c].wait = "ok"
            /\ call[c].listeners = {}
            /\ call[c].timers = {}
            /\ ~HasOp(call[c].log, "load()")
            /\ \A rs \in ReadyStates : rs >= HAVE_ENOUGH_DATA =>
                  /\ ensureVideoReady(call[c], rs) = call[c]
                  /\ ensureVideoReady(ensureVideoReady(call[c], rs), rs) = call[c]

\* the check has just run on a handle passed by the caller that was ready
C17_Witness ==
    \E c \in Calls :
        /\ ~call[c].isFile
        /\ call[c].pc = "ready"
        /\ call[c].readyState >= HAVE_ENOUGH_DATA
        /\ call[c].wait = "ok"
        /\ call[c].log = <<>>

\* the two readiness waits and what each registers and rejects with
Waits == {"load", "ready"}
WaitListeners(w) == {L("canplaythrough", w, 0), L("error", w, 0)}
WaitFailures(w) ==
    IF w = "load" THEN {"Failed to load video", "Video load timeout"}
    ELSE {"Video failed to load", "Video load timeout"}

\* the wait w of record r is LOADING: entered and not settled
Loading(r, w) == r.pc = w /\ r.wait = "pending"

\* while a wait is LOADING both its listeners are registered and its timer is
\* armed; in every other state none of the three is left, so nothing that
\* arrives later can run a handler of the wait; FAILED carries the reason of
\* the error signal or of the timeout
C18_WaitState ==
    \A c \in Calls, w \in Waits :
        /\ Loading(call[c], w) =>
              /\ WaitListeners(w) \subseteq call[c].listeners
              /\ T(w, 0) \in call[c].timers
        /\ ~Loading(call[c], w) =>
              /\ WaitListeners(w) \cap call[c].listeners = {}
              /\ T(w, 0) \notin call[c].timers
        /\ (call[c].pc = w /\ call[c].wait = "err") =>
              call[c].err \in WaitFailures(w)

\* a step that touches a LOADING wait settles it, READY or FAILED; the only
\* step from READY or FAILED is the continuation of detectFromVideo, which
\* acts on that outcome: FAILED rejects the call with the wait's reason, READY
\* never does
C18_WaitStep ==
    \A c \in Calls, w \in Waits :
        /\ (Loading(call[c], w) /\ call[c]' # call[c]) =>
              /\ call[c]'.pc = w
              /\ call[c]'.wait \in {"ok", "err"}
        /\ (call[c].pc = w /\ call[c].wait = "err" /\ call[c]' # call[c]) =>
              /\ call[c]'.pc = "rejected"
              /\ Last(call[c]'.log).v = call[c].err
        /\ (call[c].pc = w /\ call[c].wait = "ok" /\ call[c]' # call[c]) =>
              /\ call[c]'.pc # w \/ w = "load"
              /\ call[c]'.pc = "rejected" =>
                    Last(call[c]'.log).v \notin LoadFailures

\* C18: each readiness wait settles once, READY on the can-play-through
\* signal and FAILED on the error signal or its timeout, with both listeners
\* removed and the timer cancelled or spent, and stays as it settled.
C18_WaitsSettleOnceAndClean == [](C18_WaitState) /\ [][C18_WaitStep]_vars

\* a File whose load was READY and whose readiness wait was FAILED by the
\* error signal: the call rejected and nothing is left registered
C18_Witness ==
    \E c \in Calls :
        /\ call[c].isFile
        /\ call[c].pc = "rejected"
        /\ HasOp(call[c].log, "load()")
        /\ call[c].err = "Video failed to load"
        /\ call[c].listeners = {}
        /\ call[c].timers = {}

\* an init() call made when one has completed returns in the same step, with
\* no WASM initialisation awaited and nothing assigned; and once an init() call
\* has completed and none is still waiting for the WASM module, no step
\* constructs an engine or changes the one in use
C19_InitStep ==
    /\ \A i \in Inits :
          (initialized /\ initPc[i] = "idle" /\ initPc[i]' # "idle") =>
              /\ initPc[i]' = "done"
              /\ engines' = engines
              /\ detector' = detector
              /\ initialized'
    /\ (initialized /\ \A i \in Inits : initPc[i] # "awaitWasm") =>
          /\ engines' = engines
          /\ detector' = detector
          /\ initialized'

\* C19: once an init() call has completed, a further init() call returns
\* without running the WASM initialisation and without constructing an
\* engine: the engine in use stays the same.
C19_InitIdempotent == [][C19_InitStep]_vars

\* the second init() call was made after the first had completed: both have
\* returned and one engine was constructed
C19_Witness ==
    /\ \A i \in Inits : initPc[i] = "done"
    /\ engines = 1
    /\ detector = 1

\* the merge of the setConfig arguments in the order of the calls
RECURSIVE MergeAll(_)
MergeAll(calls) ==
    IF calls = <<>> THEN [k \in Keys |-> Unset]
    ELSE Merge(MergeAll(SubSeq(calls, 1, Len(calls) - 1)), calls[Len(calls)])

\* a detection call that passes the check of the detector is made with the
\* engine it will use holding the merge of the setConfig calls made so far
C20_DetectionStep ==
    /\ \A c \in Calls :
          (call[c].pc = "idle" /\ call[c]'.pc \notin {"idle", "rejected"}) =>
              engineConfig[detector] = MergeAll(configCalls)
    /\ (imgCall.pc = "idle" /\ imgCall'.pc # "idle" /\ imgDetector # 0) =>
          imgEngineConfig[imgDetector] = MergeAll(configCalls)

\* C20: the configuration in effect in the engines during a detection is the
\* merge of all the setConfig calls made before it, whether they were made
\* before or after init.
C20_ConfigInEffect == [][C20_DetectionStep]_vars

\* C21: a key the config does not have takes its default, 8 for
\* frameSampleCount, uniform for sampleStrategy and 30 for maxDuration, and a
\* key it has takes the value given, whatever the other keys; with no key at
\* all the plan is the uniform plan of 8 timestamps over min(duration, 30).
C21_DefaultsPerKey ==
    \A c \in Calls : call[c].pc # "idle" =>
        /\ call[c].count =
              IF "frameSampleCount" \in call[c].given
              THEN call[c].config.frameSampleCount ELSE 8
        /\ call[c].strategy =
              IF "sampleStrategy" \in call[c].given
              THEN call[c].config.sampleStrategy ELSE "uniform"
        /\ call[c].maxDuration =
              IF "maxDuration" \in call[c].given
              THEN call[c].config.maxDuration ELSE 30
        /\ Planned(c) => Len(call[c].plan) = call[c].count
        /\ (Planned(c) /\ call[c].given = {}) =>
              /\ Len(call[c].plan) = 8
              /\ \A k \in 1..8 :
                    Eq(call[c].plan[k], <<k * Min(call[c].duration, 30), 9>>)

\* a call with no config on a video of 40 seconds has its plan
C21_Witness ==
    \E c \in Calls :
        /\ call[c].given = {}
        /\ call[c].duration = 40
        /\ Planned(c)

\* C22: a call on a handle supplied by the caller, whose src may be a blob:
\* URL, never creates an object URL and never releases one.
C22_CallerHandleNeverRevoked ==
    \A c \in Calls : (call[c].pc # "idle" /\ ~call[c].isFile) =>
        /\ ~HasOp(call[c].log, "revokeObjectURL")
        /\ ~HasOp(call[c].log, "createObjectURL")

\* a call on a caller's handle with a blob: src rejected after its readiness
\* wait failed: the finally block ran and released nothing
C22_Witness ==
    \E c \in Calls :
        /\ ~call[c].isFile
        /\ call[c].srcBlob
        /\ call[c].pc = "rejected"
        /\ call[c].err \in LoadFailures

\* a detectFromImage call on a File creates one object URL and never
\* releases it twice; once the load has succeeded or failed the URL has been
\* released, before any step of the detection; and after a failed load the
\* call rejects with 'Failed to load image' and no detection is run.
C23_ImageUrlState ==
    LET log == imgCall.log
        isFile == imgCall.pc = "loadImage" \/ HasOp(log, "createObjectURL")
    IN  isFile =>
          /\ CountOp(log, "createObjectURL") = 1
          /\ CountOp(log, "revokeObjectURL") <= 1
          /\ imgCall.pc # "loadImage" => CountOp(log, "revokeObjectURL") = 1
          /\ \A p \in Pos(log, "revokeObjectURL"),
                q \in Pos(log, "toImageData") \cup Pos(log, "detect_from_image")
                      \cup SettlePos(log) : p < q
          /\ (\/ imgCall.pc = "loadFailed"
              \/ (imgCall.pc = "rejected"
                    /\ Last(log).v = "Failed to load image")) =>
                (~HasOp(log, "toImageData") /\ ~HasOp(log, "detect_from_image"))

\* the step after a failed load is the rejection with 'Failed to load image'
C23_ImageLoadFailedStep ==
    (imgCall.pc = "loadFailed" /\ imgCall' # imgCall) =>
        /\ imgCall'.pc = "rejected"
        /\ Last(imgCall'.log).v = "Failed to load image"

\* C23: for detectFromImage with a File one object URL is created and it is
\* released exactly once, on a load that succeeds before the detection and on
\* a load that fails, after which the call rejects with 'Failed to load
\* image' and runs no detection.
C23_ImageUrlReleasedOnce ==
    [](C23_ImageUrlState) /\ [][C23_ImageLoadFailedStep]_vars

\* the image of a File failed to load with the processors initialised: the
\* URL was released and the call rejected
C23_Witness ==
    /\ imgDetector # 0
    /\ imgCall.pc = "rejected"
    /\ CountOp(imgCall.log, "revokeObjectURL") = 1
    /\ Last(imgCall.log).v = "Failed to load image"

\* C24: a call calls start_video_analysis at most once, with the source
\* READY and the plan computed; every add_video_frame and get_video_consensus
\* of the call comes after its start_video_analysis returned; no
\* add_video_frame comes after get_video_consensus; and a call that started a
\* session has called get_video_consensus exactly once when it has settled.
C24_SessionProtocol ==
    \A c \in Calls :
        LET log == call[c].log
            S == Pos(log, "start_video_analysis")
            A == Pos(log, "add_video_frame")
            G == Pos(log, "get_video_consensus")
        IN  /\ Cardinality(S) <= 1
            /\ Cardinality(G) <= 1
            /\ \A s \in S :
                  /\ Len(call[c].plan) = call[c].count
                  /\ call[c].err \notin LoadFailures
                  /\ \/ call[c].readyState >= HAVE_ENOUGH_DATA
                     \/ \E p \in Pos(log, "load()") : p < s
                  /\ call[c].isFile =>
                        \E p \in Pos(log, "createObjectURL") : p < s
            /\ \A a \in A \cup G : \E s \in S : s < a /\ log[s].v = "ok"
            /\ \A a \in A, g \in G : a < g
            /\ (Settled(c) /\ Started(c)) => Cardinality(G) = 1

\* a call that submitted two frames and then got a result from the engine
C24_Witness ==
    \E c \in Calls :
        /\ call[c].pc = "resolved"
        /\ CountOp(call[c].log, "add_video_frame") = 2
        /\ ConsensusOf(c) = "result"

\* C25: once the extraction of a timestamp has settled, neither the 'seeked'
\* nor the 'error' listener it registered is on the handle, and once the call
\* has settled the handle carries no listener of the call.
C25_FrameListenersTornDown ==
    \A c \in Calls :
        /\ \A i \in 1..Len(call[c].plan) :
              (i < call[c].idx \/ (i = call[c].idx /\ call[c].wait # "pending")) =>
                  /\ L("seeked", "frame", i) \notin call[c].listeners
                  /\ L("error", "frame", i) \notin call[c].listeners
        /\ Settled(c) => call[c].listeners = {}

\* C26: the seek of a timestamp is requested right after the 'seeked'
\* listener of that extraction was registered, never before; and as long as
\* the extraction waits and its seek is unanswered the listener is on the
\* handle, so the signal that answers the seek runs it.
C26_ListenerBeforeSeek ==
    \A c \in Calls :
        LET log == call[c].log
        IN  /\ \A k \in Pos(log, "seek") :
                  /\ k > 1
                  /\ log[k - 1].op = "addEventListener"
                  /\ log[k - 1].v = "seeked"
                  /\ log[k - 1].i = log[k].i
            /\ (call[c].pc = "frame" /\ call[c].wait = "pending"
                    /\ call[c].idx \in call[c].pending) =>
                  L("seeked", "frame", call[c].idx) \in call[c].listeners

\* the signal answering the seek of the second timestamp was caught by the
\* listener of that extraction
C26_Witness ==
    \E c \in Calls :
        \E p \in Pos(call[c].log, "capture") :
            /\ call[c].log[p].i = 2
            /\ call[c].log[p].j = 2

\* the entries of the log with this op made for the i-th timestamp of the plan
OpsAt(log, op, i) == {k \in Pos(log, op) : log[k].i = i}

\* the timestamps of the plan whose extraction resolved with a frame
Extracted(c) ==
    {i \in 1..Len(call[c].plan) : OpsAt(call[c].log, "capture", i) # {}}

\* C27: in a call that started its session the seeks requested so far are
\* those of the timestamps 1..idx of the plan, one each and in this order; a
\* frame is submitted at most once per timestamp, only after the extraction
\* of that timestamp gave a frame, and never for a timestamp whose extraction
\* failed; when the call has settled the seeks are as many as
\* frameSampleCount and the submissions as many as the extractions that gave
\* a frame.
C27_OneSeekPerTimestamp ==
    \A c \in Calls : Started(c) =>
        LET log == call[c].log
            n == Len(call[c].plan)
        IN  /\ n = call[c].count
            /\ \A k \in Pos(log, "seek") : log[k].i \in 1..call[c].idx
            /\ \A i \in 1..n :
                  /\ Cardinality(OpsAt(log, "seek", i)) =
                        (IF i <= call[c].idx THEN 1 ELSE 0)
                  /\ Cardinality(OpsAt(log, "add_video_frame", i)) <= 1
                  /\ \A a \in OpsAt(log, "add_video_frame", i) :
                        /\ \E p \in OpsAt(log, "capture", i) : p < a
                        /\ \A w \in OpsAt(log, "warn", i) :
                              log[w].v \notin FrameFailures
                  /\ \A k \in OpsAt(log, "seek", i), q \in OpsAt(log, "seek", i + 1) :
                        k < q
            /\ \A a \in Pos(log, "add_video_frame") : log[a].i \in 1..n
            /\ Settled(c) =>
                  /\ CountOp(log, "seek") = call[c].count
                  /\ CountOp(log, "add_video_frame") = Cardinality(Extracted(c))
                  /\ CountOp(log, "add_video_frame") <= call[c].count

\* a settled call with a plan of three timestamps: the extraction of the
\* first failed, those of the other two gave a frame
C27_Witness ==
    \E c \in Calls :
        /\ Settled(c)
        /\ call[c].count = 3
        /\ CountOp(call[c].log, "seek") = 3
        /\ \E w \in OpsAt(call[c].log, "warn", 1) :
              call[c].log[w].v \in FrameFailures
        /\ CountOp(call[c].log, "add_video_frame") = 2

\* the position in the log of what the call does next after its
\* add_video_frame at position a: past the warning when the engine threw
AfterAdd(log, a) == IF log[a].v = "throw" THEN a + 2 ELSE a + 1

\* C28: whatever add_video_frame answered for a timestamp (true, false or a
\* throw, which is warned about), the call goes on to the extraction of the
\* next timestamp of the plan, or after the last one to get_video_consensus;
\* a settled call that had a frame refused has requested the seek of every
\* timestamp and called get_video_consensus once.
C28_VerdictKeepsControlFlow ==
    \A c \in Calls :
        LET log == call[c].log
            n == Len(call[c].plan)
        IN  \A a \in Pos(log, "add_video_frame") :
                LET i == log[a].i
                    k == AfterAdd(log, a)
                IN  /\ log[a].v = "throw" =>
                          /\ log[a + 1].op = "warn"
                          /\ log[a + 1].v \notin FrameFailures
                    /\ Len(log) > k
                    /\ i < n =>
                          /\ log[k].op = "addEventListener"
                          /\ log[k].i = i + 1
                          /\ log[k + 1].op = "seek"
                          /\ log[k + 1].i = i + 1
                    /\ i = n => log[k].op = "get_video_consensus"
                    /\ (Settled(c) /\ log[a].v # "true") =>
                          /\ \A t \in 1..n : OpsAt(log, "seek", t) # {}
                          /\ CountOp(log, "get_video_consensus") = 1

\* a call resolved with the engine's result after the engine refused the
\* frame of the first timestamp and threw on that of the second
C28_Witness ==
    \E c \in Calls :
        /\ call[c].pc = "resolved"
        /\ ConsensusOf(c) = "result"
        /\ \E a \in OpsAt(call[c].log, "add_video_frame", 1) :
              call[c].log[a].v = "false"
        /\ \E a \in OpsAt(call[c].log, "add_video_frame", 2) :
              call[c].log[a].v = "throw"
        /\ OpsAt(call[c].log, "seek", 3) # {}

\* calls c and d were in progress at the same time
Overlap(c, d) ==
    /\ c # d
    /\ call[c].pc # "idle"
    /\ call[d].pc # "idle"
    /\ c \notin call[d].after
    /\ d \notin call[c].after

\* C29: nothing keeps the session a call started for that call.  A frame a
\* call adds on the engine it started its session on goes to whatever session
\* that engine holds: its own, or the one an overlapping call started over
\* it, or none once an overlapping call's get_video_consensus closed it.  The
\* call does not notice: when it has settled it has submitted every frame it
\* extracted and called get_video_consensus once.
C29_NoSessionIsolation ==
    \A c \in Calls :
        LET log == call[c].log
        IN  /\ \A a \in Pos(log, "add_video_frame"),
                  s \in Pos(log, "start_video_analysis") :
                  (log[a].e = log[s].e /\ log[a].j # c) =>
                      \E d \in Calls :
                          /\ Overlap(c, d)
                          /\ log[a].j = d =>
                                \E k \in Pos(call[d].log, "start_video_analysis") :
                                    /\ call[d].log[k].v = "ok"
                                    /\ call[d].log[k].e = log[a].e
                          /\ log[a].j # d =>
                                /\ log[a].j = 0
                                /\ \E k \in Pos(call[d].log, "get_video_consensus") :
                                      call[d].log[k].e = log[a].e
            /\ (Settled(c) /\ Started(c)) =>
                  /\ \A i \in Extracted(c) : OpsAt(log, "add_video_frame", i) # {}
                  /\ CountOp(log, "get_video_consensus") = 1

\* two overlapping calls: the first frame of call 1 was added to the session
\* call 2 had started over it, call 2 closed that session by its
\* get_video_consensus, and call 1 went on to add its second frame with no
\* session open and to call get_video_consensus
C29_Witness ==
    /\ Overlap(1, 2)
    /\ \E a \in OpsAt(call[1].log, "add_video_frame", 1) : call[1].log[a].j = 2
    /\ \E a \in OpsAt(call[1].log, "add_video_frame", 2) : call[1].log[a].j = 0
    /\ HasOp(call[2].log, "get_video_consensus")
    /\ HasOp(call[1].log, "get_video_consensus")

\* what a call does with the handle or the engine
HandleOps == {"seek", "capture"} \cup EngineOps

\* loadVideoFile resolved for call c: ensureVideoReady has read the handle
FileLoaded(c) == call[c].isFile /\ call[c].readyState # 0

\* C30: a call on a File that loaded releases the object URL as the last
\* thing it does before it settles: every seek, capture and engine call of the call comes
\* before the release, no extraction is waiting and no 'seeked' listener or
\* timer of the call is left when it is made; in a call that started its
\* session the release comes after the seek of every timestamp of the plan
\* and after get_video_consensus returned or threw.
C30_ReleaseAfterLastUse ==
    \A c \in Calls : FileLoaded(c) =>
        LET log == call[c].log
        IN  \A p \in Pos(log, "revokeObjectURL") :
                /\ Settled(c)
                /\ p = Len(log) - 1
                /\ \A k \in 1..Len(log) : log[k].op \in HandleOps => k < p
                /\ call[c].timers = {}
                /\ \A l \in call[c].listeners : l.ev # "seeked"
                /\ Started(c) =>
                      /\ \A i \in 1..Len(call[c].plan) :
                            \E k \in OpsAt(log, "seek", i) : k < p
                      /\ \E g \in Pos(log, "get_video_consensus") : g < p

\* a File call resolved with the engine's result after the frame of the last
\* of its three timestamps was captured, the URL released
C30_Witness ==
    \E c \in Calls :
        /\ call[c].isFile
        /\ call[c].pc = "resolved"
        /\ ConsensusOf(c) = "result"
        /\ OpsAt(call[c].log, "capture", 3) # {}
        /\ HasOp(call[c].log, "revokeObjectURL")

\* C31: the frame captured for a timestamp of the plan is captured on the
\* position-reached signal that answers the seek to that timestamp, never on
\* the late signal of an earlier seek of the call.
C31_CaptureAnswersOwnSeek ==
    \A c \in Calls :
        \A p \in Pos(call[c].log, "capture") :
            call[c].log[p].j = call[c].log[p].i

\* when call c has settled nothing of it is left that could act: no timer is
\* armed, and the listeners still on the handle are 'error' listeners of
\* extractFrame
C32_SettledState ==
    \A c \in Calls : Settled(c) =>
        /\ call[c].timers = {}
        /\ \A l \in call[c].listeners : l.ev = "error" /\ l.w = "frame"

\* a step taken when call c has settled leaves its log, its outcome and the
\* engine's session as they are
C32_SettledStep ==
    \A c \in Calls : Settled(c) =>
        /\ call'[c].log = call[c].log
        /\ call'[c].pc = call[c].pc
        /\ call'[c].listeners \subseteq call[c].listeners
        /\ call'[c].timers = {}
        /\ session' = session

\* C32: a call that has settled has no timer armed and no listener that acts,
\* and whatever signal the host delivers afterwards the call makes no engine
\* call, requests no seek, captures no frame and releases nothing.
C32_SettledCallIsInert == [](C32_SettledState) /\ [][C32_SettledStep]_vars

\* after the call settled the host answered the seek of an extraction that
\* had timed out and delivered an 'error', which ran the 'error' listener
\* an earlier extraction had left on the handle
C32_Witness ==
    \E c \in Calls :
        /\ Settled(c)
        /\ {"seeked", "error"} \subseteq call[c].lateSignals
        /\ L("error", "frame", 1) \in call[c].listeners
        /\ \E w \in OpsAt(call[c].log, "warn", 2) :
              call[c].log[w].v = "Frame extraction timeout"

\* C33: however the init() calls on a processor interleave, at most one
\* engine is constructed, so that the engine reference, once set, is the
\* first engine for good.
C33_OneEngineEver ==
    /\ engines <= 1
    /\ detector \in {0, 1}

\* C34: the engine calls of one detectFromVideo call are all made on the
\* same engine, whatever init() calls run meanwhile.
C34_OneEnginePerCall ==
    \A c \in Calls :
        \A k, q \in 1..Len(call[c].log) :
            (call[c].log[k].op \in EngineOps /\ call[c].log[q].op \in EngineOps) =>
                call[c].log[k].e = call[c].log[q].e

\* as long as no init() call has completed the processor has no engine and
\* is not initialised, whatever init() calls have failed
C35_UninitialisedState ==
    (\A i \in Inits : initPc[i] # "done") =>
        /\ detector = 0
        /\ ~initialized
        /\ engines = 0

\* the step in which the WASM initialisation of an init() call fails changes
\* nothing of the processor; an init() call made on a processor that is not
\* initialised awaits the WASM initialisation; a detectFromVideo call made on
\* a processor with no engine rejects with 'Not initialized'
C35_InitFailedStep ==
    /\ \A i \in Inits :
          /\ (initPc[i] = "awaitWasm" /\ initPc'[i] = "failed") =>
                /\ detector' = detector
                /\ initialized' = initialized
                /\ engines' = engines
          /\ (initPc[i] = "idle" /\ initPc'[i] # "idle" /\ ~initialized) =>
                initPc'[i] = "awaitWasm"
    /\ \A c \in Calls :
          (call[c].pc = "idle" /\ call'[c].pc # "idle" /\ detector = 0) =>
              /\ call'[c].pc = "rejected"
              /\ Last(call'[c].log).v = "Not initialized"
              /\ Len(call'[c].log) = 1

\* C35: a failed WASM initialisation leaves the processor without engine and
\* not initialised; a detection call then rejects with 'Not initialized' and
\* a later init() call runs the initialisation again.
C35_FailedInitLeavesUninitialised ==
    [](C35_UninitialisedState) /\ [][C35_InitFailedStep]_vars

\* the first init() call failed, a detection call was rejected, and the
\* second init() call is awaiting the WASM initialisation
C35_Witness ==
    /\ initPc[1] = "failed"
    /\ initPc[2] = "awaitWasm"
    /\ ~initialized
    /\ NotInitialized(1)

\* the value the seek at position k of the log of call c assigns to
\* video.currentTime: the timestamp of the plan the loop is at
SeekTarget(c, k) == call[c].plan[call[c].log[k].i]

\* C36: every seek of a call is for a timestamp of its plan, and its target
\* is at least 0 and at most the duration of the handle.
C36_SeekTargetsInRange ==
    \A c \in Calls :
        \A k \in Pos(call[c].log, "seek") :
            /\ call[c].log[k].i \in 1..Len(call[c].plan)
            /\ Leq(<<0, 1>>, SeekTarget(c, k))
            /\ Leq(SeekTarget(c, k), <<call[c].duration, 1>>)

\* a seek into the late window of a keyframes plan of a video shorter than
\* maxDuration
C36_Witness ==
    \E c \in Calls :
        /\ call[c].strategy = "keyframes"
        /\ call[c].duration < call[c].maxDuration
        /\ \E k \in Pos(call[c].log, "seek") :
              Leq(<<9 * call[c].duration, 10>>, SeekTarget(c, k))

\* C37: the timestamps of a keyframes plan are strictly ascending, so no two
\* of them are equal.
C37_KeyframesStrictlyAscending ==
    \A c \in Calls : (Planned(c) /\ call[c].strategy = "keyframes") =>
        LET plan == call[c].plan
        IN  /\ \A k \in 1..(Len(plan) - 1) : Less(plan[k], plan[k + 1])
            /\ \A k, q \in 1..Len(plan) : k # q => ~Eq(plan[k], plan[q])

\* a keyframes plan of the largest count, with several timestamps in each of
\* the three windows
C37_Witness ==
    \E c \in Calls :
        /\ Planned(c)
        /\ call[c].strategy = "keyframes"
        /\ call[c].count = PlanMaxCount
        /\ Cardinality(InWindow(c, <<0, 1>>, Frac(c, 1, 10))) >= 2
        /\ Cardinality(InWindow(c, Frac(c, 3, 10), Frac(c, 7, 10))) >= 2
        /\ Cardinality(InWindow(c, Frac(c, 9, 10), Frac(c, 1, 1))) >= 2

\* calls c and d were given the same four arguments
SameArgs(c, d) ==
    PlanArgs(c, call[d].duration, call[d].count, call[d].strategy,
             call[d].maxDuration)

\* two plans computed from the same arguments are the same plan
C38_SameArgsSamePlan ==
    \A c, d \in Calls :
        (Planned(c) /\ Planned(d) /\ SameArgs(c, d)) =>
            call[c].plan = call[d].plan

\* the step that computes a plan changes the plan and nothing else: not the
\* processor, not the engine's session, no listener, timer, seek or log entry
C38_PlanStep ==
    \A c \in Calls :
        (call'[c].plan # call[c].plan) =>
            /\ call'[c] = [call[c] EXCEPT !.plan = call'[c].plan]
            /\ \A d \in Calls \ {c} : call'[d] = call[d]
            /\ detector' = detector
            /\ initialized' = initialized
            /\ engines' = engines
            /\ session' = session

====
